---- MODULE Spec2Model ----
(***************************************************************************)
(* ClawGate scheduler: the job lifecycle run by concurrent CLI processes.  *)
(*                                                                         *)
(* Every CLI invocation (manual or fired by cron) is one short-lived OS    *)
(* process.  The processes share the jobs directory, the schedules         *)
(* directory, the locks directory and the host crontab.  A step of the     *)
(* model is one access of a process to that shared state (one file system  *)
(* call or one `crontab` call) together with the local computation that    *)
(* follows it up to the next access.  existsSync(f) followed by            *)
(* unlinkSync(f) or readFileSync(f) whose failure is swallowed is one step *)
(* at the second call, which decides the effect alone.                     *)
(***************************************************************************)
EXTENDS Integers, Sequences, FiniteSets, TLC

\* ---------------------------------------------------------------- bounds
NumProcs == 3    \* CLI invocations; the pid of invocation p is p
MaxLive == 2     \* invocations running at the same time
NumJobs == 1     \* ids randomUUID hands out before the model stops creating
NumCrons == 1    \* distinct well-formed 5-field cron expressions
MaxMaxRuns == 1  \* largest N of an "Nx" count suffix given to create
MaxCrashes == 1  \* lock holders killed in mid-execution
MaxUserLines == 2  \* lines of the user's own in the crontab before the first operation
MaxLines == 10   \* crontab lines beyond which no further operation is tried
MaxTimeout == 2  \* largest execution.timeoutMs of a job, in units of 5000 ms
MaxRetries == 1  \* largest execution.maxRetries of a job
NumRegIds == 2   \* ids a caller of the Registry can name, and create can hand out
MaxWords == 3    \* words of a typed schedule expression
MaxCount == 2    \* largest count of a count suffix
NumExecs == 2    \* execute invocations followed through their runCommand call
MaxStep == 3       \* the values of N an interval form is compared over
MaxRewrites == 3 \* calls of addToCrontab and removeFromCrontab in a row

Procs == 1..NumProcs
JobIds == 1..NumJobs
Crons == 1..NumCrons

VARIABLES
    store,      \* jobsDir: job id -> job record, Null = no <id>.json
    schedules,  \* schedulesDir: job id -> cron expression, 0 = no file
    crontab,    \* managed region of the host crontab: sequence of entries
    locks,      \* locksDir: job id -> pid written in <id>.lock, 0 = no file
    nextId,     \* number of ids randomUUID has handed out
    proc,       \* per invocation: position, options, locals, result
    overlapped, \* history: some command started while another was running
    content,    \* the host crontab as text: the lines content.split("\n") gives
    original,   \* history: the crontab text before the first operation
    written,    \* history: the jobs addToCrontab was called for
    run,        \* one runCommand call: clock, child, timers, signals, result
    reg,        \* a Registry of its own: the job files and the last call made
    sched,      \* one parseSchedule call: the input and what came back
    table       \* the lines of the managed region, and the last call on them

jobVars == <<store, schedules, crontab, locks, nextId, proc, overlapped>>

\* the state of the crontab text and of runCommand, which the commands
\* above the file system calls do not look into
callVars == <<reg, sched, table>>

sideVars == <<content, original, written, run, callVars>>

vars == <<jobVars, sideVars>>

\* ----------------------------------------------------------------- values
Null == [isNull |-> TRUE]

\* pc        position in the command
\* cmd       the command
\* id .. maxRuns   its options (enabled "none": no --enabled; cron 0: no
\*           --schedule); for create, id is the id randomUUID returned
\* job       the `job` snapshot registry.get returned when the action began
\* lockPid   lock.pid read by isLocked
\* acquired  lockManager.lock returned true
\* stale     history: the pid isLocked probed was of no live process
\* spawned   history: runCommand was called
\* crashedAt history: the position at which the process was killed
\* tab       `existing`, the crontab read by addToCrontab/removeFromCrontab
\* fresh     the job read inside registry.update / registry.updateState
\* todo      the jobs cron --install has still to reinstall
\* outcome, success, exitCode   the ExecuteResult of executor.execute
\* exit      the exit code of the process, -1 while it runs
Idle ==
    [pc |-> "idle", cmd |-> "none",
     id |-> 0, force |-> FALSE, dryRun |-> FALSE, enabled |-> "none",
     cron |-> 0, autoDelete |-> FALSE, maxRuns |-> 0,
     job |-> Null, lockPid |-> 0, acquired |-> FALSE, stale |-> FALSE,
     spawned |-> FALSE, crashedAt |-> "none",
     tab |-> <<>>, fresh |-> Null, todo |-> <<>>,
     outcome |-> "none", success |-> FALSE, exitCode |-> -1, exit |-> -1]

\* processes that exist in the process table (process.kill(pid, 0) succeeds)
Alive == {p \in Procs : proc[p].pc \notin {"idle", "done", "crashed"}}

Crashed == {p \in Procs : proc[p].pc = "crashed"}

JobInit ==
    /\ store = [i \in JobIds |-> Null]
    /\ schedules = [i \in JobIds |-> 0]
    /\ crontab = <<>>
    /\ locks = [i \in JobIds |-> 0]
    /\ nextId = 0
    /\ proc = [p \in Procs |-> Idle]
    /\ overlapped = FALSE

\* no Registry or parseSchedule call is looked at
CallsIdle ==
    /\ reg = Null
    /\ sched = Null
    /\ table = Null

\* nor the crontab text or a runCommand call
SideIdle ==
    /\ content = <<>>
    /\ original = <<>>
    /\ written = {}
    /\ run = Null

Init ==
    /\ JobInit
    /\ content = <<>>
    /\ original = <<>>
    /\ written = {}
    /\ run = Null
    /\ CallsIdle

\* ------------------------------------------------------------ Job Store
\* Registry.create: the record saveJob writes.  Of the input it keeps name,
\* description, target, payload and enabled; the schedule goes to the
\* schedules directory, and no other field of the input reaches the record.
NewJob(enabled, cron, autoDelete, maxRuns) ==
    [enabled |-> enabled, cron |-> 0, maxRuns |-> 0,
     autoDelete |-> FALSE, runCount |-> 0, failCount |-> 0,
     lastResult |-> "null", lastRun |-> 0]

\* a state object that counts a failed run as a failure and not as a run
StateUpdateFailureNotARun(p, snap, success) ==
    [lastRun |-> p,
     lastResult |-> IF success THEN "success" ELSE "failure",
     runCount |-> IF success THEN snap.runCount + 1 ELSE snap.runCount,
     failCount |-> IF success THEN snap.failCount ELSE snap.failCount + 1]

\* the state object the execute action hands to updateState, built from the
\* snapshot taken when the action began; the time stamp new Date() of
\* invocation p is written p (an invocation writes state once)
StateUpdate(p, snap, success) ==
    [lastRun |-> p,
     lastResult |-> IF success THEN "success" ELSE "failure",
     runCount |-> snap.runCount + 1,
     failCount |-> IF success THEN snap.failCount ELSE snap.failCount + 1]

\* Registry.updateState: job.state = {...job.state, ...state}
MergeState(fresh, state) ==
    [fresh EXCEPT !.runCount = state.runCount, !.failCount = state.failCount,
                  !.lastResult = state.lastResult, !.lastRun = state.lastRun]

\* Registry.update: {...job, ...updates}; edit builds updates.execution and
\* updates.schedule from its own snapshot of the job
MergeUpdates(fresh, snap, enabled, cron) ==
    [fresh EXCEPT
        !.enabled = IF enabled = "none" THEN @ ELSE enabled = "true",
        !.maxRuns = IF enabled = "none" THEN @ ELSE snap.maxRuns,
        !.autoDelete = IF enabled = "none" THEN @ ELSE snap.autoDelete,
        !.cron = IF cron = 0 THEN @ ELSE cron]

\* ---------------------------------------------------------------- crontab
CronEntry(jobId, cronExpression, timezone) ==
    [jobId |-> jobId, cronExpression |-> cronExpression,
     timezone |-> timezone]

\* entries.filter((e) => e.jobId !== jobId)
FilterOut(entries, jobId) ==
    SelectSeq(entries, LAMBDA e : e.jobId # jobId)

\* the table addToCrontab writes, from the table it read; the commands
\* call it without a timezone, which it then takes to be ""
addToCrontab(existing, jobId, cronExpression, timezone) ==
    Append(FilterOut(existing, jobId),
           CronEntry(jobId, cronExpression, timezone))

\* a removeFromCrontab that writes back the table it read
removeFromCrontabKeepsEntry(existing, jobId) ==
    existing

\* the table removeFromCrontab writes, from the table it read
removeFromCrontab(existing, jobId) ==
    FilterOut(existing, jobId)

CrontabIds == {crontab[i].jobId : i \in 1..Len(crontab)}

\* ------------------------------------------------------------------ locks
\* a probe that takes every recorded pid for a live process
isProcessRunningAlways(pid) == TRUE

\* LockManager.isProcessRunning: process.kill(pid, 0) does not throw
isProcessRunning(pid) == pid \in Alive

\* ------------------------------------------------------- process helpers
\* pids are handed out in the order the processes start
CanStart(p) ==
    /\ proc[p].pc = "idle"
    /\ IF p = 1 THEN TRUE ELSE proc[p - 1].pc # "idle"
    /\ Cardinality(Alive) < MaxLive

Set(p, r) == proc' = [proc EXCEPT ![p] = r]

Start(p, r) ==
    /\ Set(p, r)
    /\ overlapped' = (overlapped \/ Alive # {})

\* process.exit(code): the locals are gone; what stays is the history the
\* properties read
Exited(r, code) ==
    [Idle EXCEPT !.pc = "done", !.cmd = r.cmd, !.id = r.id,
                 !.autoDelete = r.autoDelete, !.maxRuns = r.maxRuns,
                 !.acquired = r.acquired, !.stale = r.stale,
                 !.spawned = r.spawned,
                 !.outcome = r.outcome, !.exit = code]

\* ids a user or a trigger line can name: those handed out so far
Issued == 1..nextId

\* ---------------------------------------------------------------- execute
\* an execute that leaves through the catch of the action when the job is
\* not found
StartExecuteNotFoundExitsOne(p, id, force, dryRun) ==
    /\ CanStart(p)
    /\ LET r == [Idle EXCEPT !.cmd = "execute", !.id = id, !.force = force,
                             !.dryRun = dryRun, !.job = store[id]]
       IN  Start(p, IF store[id] = Null
                    THEN Exited([r EXCEPT !.outcome = "notfound", !.job = Null], 1)
                    ELSE IF ~store[id].enabled /\ ~force
                    THEN [r EXCEPT !.pc = "us_read", !.outcome = "disabled",
                                   !.exitCode = 3]
                    ELSE [r EXCEPT !.pc = "isLocked"])
    /\ UNCHANGED <<store, schedules, crontab, locks, nextId, sideVars>>

\* const job = registry.get(id), then Executor.execute up to the lock: a
\* disabled job without --force returns exit code 3 to the action
StartExecute(p, id, force, dryRun) ==
    /\ CanStart(p)
    /\ LET r == [Idle EXCEPT !.cmd = "execute", !.id = id, !.force = force,
                             !.dryRun = dryRun, !.job = store[id]]
       IN  Start(p, IF store[id] = Null
                    THEN Exited([r EXCEPT !.outcome = "notfound", !.job = Null], 2)
                    ELSE IF ~store[id].enabled /\ ~force
                    THEN [r EXCEPT !.pc = "us_read", !.outcome = "disabled",
                                   !.exitCode = 3]
                    ELSE [r EXCEPT !.pc = "isLocked"])
    /\ UNCHANGED <<store, schedules, crontab, locks, nextId, sideVars>>

\* LockManager.isLocked: existsSync(lockPath)
IsLockedExists(p) ==
    /\ proc[p].pc = "isLocked"
    /\ Set(p, [proc[p] EXCEPT !.pc = IF locks[proc[p].id] = 0
                                     THEN "lock_write" ELSE "isLocked_read"])
    /\ UNCHANGED <<store, schedules, crontab, locks, nextId, overlapped, sideVars>>

\* LockManager.isLocked: readFileSync + JSON.parse; a vanished file throws
\* and the catch branch calls unlock
IsLockedRead(p) ==
    /\ proc[p].pc = "isLocked_read"
    /\ Set(p, IF locks[proc[p].id] = 0
              THEN [proc[p] EXCEPT !.pc = "purge"]
              ELSE [proc[p] EXCEPT !.pc = "isLocked_probe",
                                   !.lockPid = locks[proc[p].id]])
    /\ UNCHANGED <<store, schedules, crontab, locks, nextId, overlapped, sideVars>>

\* a lock that writes its own marker before it gives up
IsLockedProbeOverwrites(p) ==
    /\ proc[p].pc = "isLocked_probe"
    /\ locks' = [locks EXCEPT ![proc[p].id] = p]
    /\ LET r == [proc[p] EXCEPT !.stale = proc[p].lockPid \notin Alive]
       IN  Set(p, IF isProcessRunning(r.lockPid)
                  THEN [r EXCEPT !.pc = "us_read", !.outcome = "contended",
                                 !.exitCode = 4]
                  ELSE [r EXCEPT !.pc = "purge"])
    /\ UNCHANGED <<store, schedules, crontab, nextId, overlapped, sideVars>>

\* LockManager.isLocked: if (this.isProcessRunning(lock.pid)) return true;
\* lock then returns false and execute returns exit code 4 to the action.
\* stale records whether the pid read was in fact of no live process.
IsLockedProbe(p) ==
    /\ proc[p].pc = "isLocked_probe"
    /\ LET r == [proc[p] EXCEPT !.stale = proc[p].lockPid \notin Alive]
       IN  Set(p, IF isProcessRunning(r.lockPid)
                  THEN [r EXCEPT !.pc = "us_read", !.outcome = "contended",
                                 !.exitCode = 4]
                  ELSE [r EXCEPT !.pc = "purge"])
    /\ UNCHANGED <<store, schedules, crontab, locks, nextId, overlapped, sideVars>>

\* an isLocked that reports a stale marker free without unlinking it
PurgeKeepsMarker(p) ==
    /\ proc[p].pc = "purge"
    /\ Set(p, [proc[p] EXCEPT !.pc = "lock_write"])
    /\ UNCHANGED <<store, schedules, crontab, locks, nextId, overlapped, sideVars>>

\* LockManager.unlock called by isLocked on a stale or unreadable marker
Purge(p) ==
    /\ proc[p].pc = "purge"
    /\ locks' = [locks EXCEPT ![proc[p].id] = 0]
    /\ Set(p, [proc[p] EXCEPT !.pc = "lock_write"])
    /\ UNCHANGED <<store, schedules, crontab, nextId, overlapped, sideVars>>

\* LockManager.lock: writeFileSync(lockPath, {pid, startedAt})
LockWrite(p) ==
    /\ proc[p].pc = "lock_write"
    /\ locks' = [locks EXCEPT ![proc[p].id] = p]
    /\ Set(p, [proc[p] EXCEPT !.pc = "run", !.acquired = TRUE, !.lockPid = 0])
    /\ UNCHANGED <<store, schedules, crontab, nextId, overlapped, sideVars>>

\* what the try block can end in: resolvePayload throws (a file or
\* template payload that is missing), or awaiting runCommand ends with the
\* child exiting 0, exiting non-zero (or killed by a timeout: code ?? 1),
\* spawn emitting 'error', or an exception; a dry run returns its result
\* once the command is built, in place of running it
RunOutcomes(dryRun) ==
    IF dryRun
    THEN {"dryrun", "payloaderr"}
    ELSE {"ok", "fail", "spawnerr", "payloaderr", "throw"}

\* a payload error reported as a generic failure
RunExitCodeGeneric(o) ==
    CASE o \in {"ok", "dryrun"} -> 0
      [] o \in {"fail", "payloaderr"} -> 1
      [] o = "spawnerr" -> 8
      [] OTHER -> -1

RunExitCode(o) ==
    CASE o \in {"ok", "dryrun"} -> 0
      [] o = "fail" -> 1
      [] o = "spawnerr" -> 8
      [] o = "payloaderr" -> 5
      [] OTHER -> -1

\* resolvePayload, buildCommand, await this.runCommand(...)
Run(p, o) ==
    /\ proc[p].pc = "run"
    /\ Set(p, [proc[p] EXCEPT !.pc = "unlock", !.outcome = o,
                              !.success = (o \in {"ok", "dryrun"}),
                              !.spawned = (o \notin {"payloaderr", "dryrun"}),
                              !.exitCode = RunExitCode(o)])
    /\ UNCHANGED <<store, schedules, crontab, locks, nextId, overlapped, sideVars>>

\* an unlock placed after the try block instead of in finally: an exception
\* skips it
UnlockSkippedOnThrow(p) ==
    /\ proc[p].pc = "unlock"
    /\ locks' = IF proc[p].outcome = "throw"
                THEN locks
                ELSE [locks EXCEPT ![proc[p].id] = 0]
    /\ Set(p, IF proc[p].outcome = "throw"
              THEN Exited(proc[p], 1)
              ELSE [proc[p] EXCEPT !.pc = "us_read"])
    /\ UNCHANGED <<store, schedules, crontab, nextId, overlapped, sideVars>>

\* an execute that keeps its marker until the state has been written
UnlockKeepsMarker(p) ==
    /\ proc[p].pc = "unlock"
    /\ Set(p, IF proc[p].outcome = "throw"
              THEN Exited(proc[p], 1)
              ELSE [proc[p] EXCEPT !.pc = "us_read"])
    /\ UNCHANGED <<store, schedules, crontab, locks, nextId, overlapped, sideVars>>

\* finally { this.lockManager.unlock(job.id) }; an exception then reaches
\* the catch of the action (exit 1), a result goes on to updateState
Unlock(p) ==
    /\ proc[p].pc = "unlock"
    /\ locks' = [locks EXCEPT ![proc[p].id] = 0]
    /\ Set(p, IF proc[p].outcome = "throw"
              THEN Exited(proc[p], 1)
              ELSE [proc[p] EXCEPT !.pc = "us_read"])
    /\ UNCHANGED <<store, schedules, crontab, nextId, overlapped, sideVars>>

\* the rest of the execute action once updateState has returned: the
\* max-runs and auto-delete checks of a successful run, and the exit code
AfterUpdateState(r) ==
    IF r.success
    THEN IF (r.job.maxRuns # 0 /\ r.job.runCount + 1 >= r.job.maxRuns)
            \/ r.job.autoDelete
         THEN [r EXCEPT !.pc = "x_rm_read", !.fresh = Null]
         ELSE Exited(r, 0)
    ELSE Exited(r, IF r.exitCode # 0 THEN r.exitCode ELSE 8)

\* registry.updateState: const job = this.get(id); if (!job) return null
UpdateStateRead(p) ==
    /\ proc[p].pc = "us_read"
    /\ Set(p, IF store[proc[p].id] = Null
              THEN AfterUpdateState(proc[p])
              ELSE [proc[p] EXCEPT !.pc = "us_write", !.fresh = store[proc[p].id]])
    /\ UNCHANGED <<store, schedules, crontab, locks, nextId, overlapped, sideVars>>

\* registry.updateState: this.saveJob(job)
UpdateStateWrite(p) ==
    /\ proc[p].pc = "us_write"
    /\ store' = [store EXCEPT ![proc[p].id] =
                    MergeState(proc[p].fresh,
                               StateUpdate(p, proc[p].job, proc[p].success))]
    /\ Set(p, AfterUpdateState(proc[p]))
    /\ UNCHANGED <<schedules, crontab, locks, nextId, overlapped, sideVars>>

\* ------------------------------------------------- crontab read and write
\* readCrontab() at the head of addToCrontab / removeFromCrontab, and the
\* position of the writeCrontab that follows it
WriteAfter ==
    [x_rm_read |-> "x_rm_write", d_rm_read |-> "d_rm_write",
     c_add_read |-> "c_add_write", ed_rm_read |-> "ed_rm_write",
     ed_add_read |-> "ed_add_write", i_rm_read |-> "i_rm_write",
     i_add_read |-> "i_add_write"]

CrontabRead(p) ==
    /\ proc[p].pc \in DOMAIN WriteAfter
    /\ Set(p, [proc[p] EXCEPT !.pc = WriteAfter[proc[p].pc], !.tab = crontab])
    /\ UNCHANGED <<store, schedules, crontab, locks, nextId, overlapped, sideVars>>

\* writeCrontab(generateCrontab(existing, filtered)) of removeFromCrontab(id)
\* in the auto-delete branch of execute, in delete and in edit --schedule
RemoveWrite(p) ==
    /\ proc[p].pc \in {"x_rm_write", "d_rm_write", "ed_rm_write"}
    /\ crontab' = removeFromCrontab(proc[p].tab, proc[p].id)
    /\ Set(p, [proc[p] EXCEPT !.tab = <<>>,
                              !.pc = CASE proc[p].pc = "x_rm_write" -> "x_delete"
                                       [] proc[p].pc = "d_rm_write" -> "d_delete"
                                       [] proc[p].pc = "ed_rm_write" -> "ed_add_read"])
    /\ UNCHANGED <<store, schedules, locks, nextId, overlapped, sideVars>>

\* registry.delete(id) in the auto-delete branch of execute and in delete:
\* unlink the job file and the schedule file
RegistryDelete(p) ==
    /\ proc[p].pc \in {"x_delete", "d_delete"}
    /\ store' = [store EXCEPT ![proc[p].id] = Null]
    /\ schedules' = [schedules EXCEPT ![proc[p].id] = 0]
    /\ Set(p, Exited(proc[p], 0))
    /\ UNCHANGED <<crontab, locks, nextId, overlapped, sideVars>>

\* ----------------------------------------------------------------- create
\* the create action up to saveJob: parseSchedule, validation, randomUUID;
\* autoDelete is options.autoDelete || parsedSchedule.isOneTime
StartCreate(p, enabled, cron, autoDelete, maxRuns) ==
    /\ CanStart(p)
    /\ nextId < NumJobs
    /\ nextId' = nextId + 1
    /\ store' = [store EXCEPT ![nextId + 1] = NewJob(enabled, cron, autoDelete, maxRuns)]
    /\ Start(p, [Idle EXCEPT !.pc = "c_sched", !.cmd = "create", !.id = nextId + 1,
                             !.cron = cron, !.autoDelete = autoDelete,
                             !.maxRuns = maxRuns])
    /\ UNCHANGED <<schedules, crontab, locks, sideVars>>

\* Registry.create: this.saveSchedule(schedule)
SaveSchedule(p) ==
    /\ proc[p].pc = "c_sched"
    /\ schedules' = [schedules EXCEPT ![proc[p].id] = proc[p].cron]
    /\ Set(p, [proc[p] EXCEPT !.pc = "c_add_read"])
    /\ UNCHANGED <<store, crontab, locks, nextId, overlapped, sideVars>>

\* writeCrontab of addToCrontab(job.id, input.schedule) in create
CreateAddWrite(p) ==
    /\ proc[p].pc = "c_add_write"
    /\ crontab' = addToCrontab(proc[p].tab, proc[p].id, proc[p].cron, "")
    /\ Set(p, Exited(proc[p], 0))
    /\ UNCHANGED <<store, schedules, locks, nextId, overlapped, sideVars>>

\* ------------------------------------------------------------------- edit
\* const job = registry.get(id); enabled is "none" without --enabled and
\* cron is 0 without --schedule
StartEdit(p, id, enabled, cron) ==
    /\ CanStart(p)
    /\ LET r == [Idle EXCEPT !.cmd = "edit", !.id = id, !.enabled = enabled,
                             !.cron = cron, !.job = store[id]]
       IN  Start(p, IF store[id] = Null
                    THEN Exited(r, 2)
                    ELSE [r EXCEPT !.pc = IF cron # 0 THEN "ed_rm_read"
                                                      ELSE "ed_upd_read"])
    /\ UNCHANGED <<store, schedules, crontab, locks, nextId, sideVars>>

\* writeCrontab of addToCrontab(id, options.schedule) in edit
EditAddWrite(p) ==
    /\ proc[p].pc = "ed_add_write"
    /\ crontab' = addToCrontab(proc[p].tab, proc[p].id, proc[p].cron, "")
    /\ Set(p, [proc[p] EXCEPT !.pc = "ed_upd_read", !.tab = <<>>])
    /\ UNCHANGED <<store, schedules, locks, nextId, overlapped, sideVars>>

\* registry.update: const job = this.get(id); if (!job) return null, and
\* the action exits 1
UpdateRead(p) ==
    /\ proc[p].pc = "ed_upd_read"
    /\ Set(p, IF store[proc[p].id] = Null
              THEN Exited(proc[p], 1)
              ELSE [proc[p] EXCEPT !.pc = "ed_upd_write", !.fresh = store[proc[p].id]])
    /\ UNCHANGED <<store, schedules, crontab, locks, nextId, overlapped, sideVars>>

\* registry.update: this.saveJob(updated)
UpdateWrite(p) ==
    /\ proc[p].pc = "ed_upd_write"
    /\ store' = [store EXCEPT ![proc[p].id] =
                    MergeUpdates(proc[p].fresh, proc[p].job,
                                 proc[p].enabled, proc[p].cron)]
    /\ Set(p, Exited(proc[p], 0))
    /\ UNCHANGED <<schedules, crontab, locks, nextId, overlapped, sideVars>>

\* ----------------------------------------------------------------- delete
\* const job = registry.get(id); without --force the action exits 1
\* a delete that removes the record before the trigger entry
StartDeleteRecordFirst(p, id, force) ==
    /\ CanStart(p)
    /\ LET r == [Idle EXCEPT !.cmd = "delete", !.id = id, !.force = force]
       IN  Start(p, IF store[id] = Null THEN Exited(r, 2)
                    ELSE IF ~force THEN Exited(r, 1)
                    ELSE [r EXCEPT !.pc = "d_rm_read"])
    /\ store' = IF store[id] # Null /\ force
                THEN [store EXCEPT ![id] = Null] ELSE store
    /\ schedules' = IF store[id] # Null /\ force
                    THEN [schedules EXCEPT ![id] = 0] ELSE schedules
    /\ UNCHANGED <<crontab, locks, nextId, sideVars>>

StartDelete(p, id, force) ==
    /\ CanStart(p)
    /\ LET r == [Idle EXCEPT !.cmd = "delete", !.id = id, !.force = force]
       IN  Start(p, IF store[id] = Null THEN Exited(r, 2)
                    ELSE IF ~force THEN Exited(r, 1)
                    ELSE [r EXCEPT !.pc = "d_rm_read"])
    /\ UNCHANGED <<store, schedules, crontab, locks, nextId, sideVars>>

\* ----------------------------------------------------------- cron --install
\* the orders jobs.sort((a, b) => a.name.localeCompare(b.name)) can give
\* the jobs of a set of ids: names are free, so every order
RECURSIVE Orders(_)
Orders(ids) ==
    IF ids = {} THEN {<<>>}
    ELSE UNION {{<<i>> \o rest : rest \in Orders(ids \ {i})} : i \in ids}

\* registry.getAll(): the (id, schedule.cronExpression) of every job read
GetAll(order) ==
    [k \in 1..Len(order) |-> [id |-> order[k], cron |-> store[order[k]].cron]]

\* const jobs = registry.getAll(); an empty list ends the action
StartInstall(p, order) ==
    /\ CanStart(p)
    /\ LET r == [Idle EXCEPT !.cmd = "install"]
       IN  Start(p, IF order = <<>>
                    THEN Exited(r, 0)
                    ELSE [r EXCEPT !.pc = "i_rm_read", !.todo = GetAll(order)])
    /\ UNCHANGED <<store, schedules, crontab, locks, nextId, sideVars>>

\* writeCrontab of removeFromCrontab(job.id) in the install loop; reading
\* job.schedule.cronExpression of a record without schedule then throws,
\* and the action exits 1
InstallRemoveWrite(p) ==
    /\ proc[p].pc = "i_rm_write"
    /\ crontab' = removeFromCrontab(proc[p].tab, Head(proc[p].todo).id)
    /\ Set(p, IF Head(proc[p].todo).cron = 0
              THEN Exited(proc[p], 1)
              ELSE [proc[p] EXCEPT !.pc = "i_add_read", !.tab = <<>>])
    /\ UNCHANGED <<store, schedules, locks, nextId, overlapped, sideVars>>

\* writeCrontab of addToCrontab(job.id, job.schedule.cronExpression)
InstallAddWrite(p) ==
    /\ proc[p].pc = "i_add_write"
    /\ crontab' = addToCrontab(proc[p].tab, Head(proc[p].todo).id,
                               Head(proc[p].todo).cron, "")
    /\ Set(p, IF Len(proc[p].todo) = 1
              THEN Exited(proc[p], 0)
              ELSE [proc[p] EXCEPT !.pc = "i_rm_read", !.tab = <<>>,
                                   !.todo = Tail(@)])
    /\ UNCHANGED <<store, schedules, locks, nextId, overlapped, sideVars>>

\* --------------------------------------------------------- cron --uninstall
\* const existing = readCrontab()
StartUninstall(p) ==
    /\ CanStart(p)
    /\ Start(p, [Idle EXCEPT !.pc = "un_write", !.cmd = "uninstall", !.tab = crontab])
    /\ UNCHANGED <<store, schedules, crontab, locks, nextId, sideVars>>

\* writeCrontab(generateCrontab(existing, []))
UninstallWrite(p) ==
    /\ proc[p].pc = "un_write"
    /\ crontab' = <<>>
    /\ Set(p, Exited(proc[p], 0))
    /\ UNCHANGED <<store, schedules, locks, nextId, overlapped, sideVars>>

\* ------------------------------------------------------------------ crash
\* the positions of removeFromCrontab(id); registry.delete(id) in the
\* delete action and in the two auto-delete branches of execute
DeletionSteps ==
    {"d_rm_read", "d_rm_write", "d_delete", "x_rm_read", "x_rm_write", "x_delete"}

\* the process is killed (SIGKILL, power loss) while it executes a job and
\* holds the lock, so that no finally block runs, or while it deletes a job
Crash(p) ==
    /\ proc[p].pc \in {"run", "unlock"} \cup DeletionSteps
    /\ Cardinality(Crashed) < MaxCrashes
    /\ Set(p, [Exited(proc[p], -1) EXCEPT !.pc = "crashed",
                                          !.crashedAt = proc[p].pc])
    /\ UNCHANGED <<store, schedules, crontab, locks, nextId, overlapped, sideVars>>

\* ------------------------------------------------------------------- Next
EnabledOpts == {"none", "true", "false"}

Next ==
    \E p \in Procs :
        \/ \E id \in Issued, force \in BOOLEAN, dryRun \in BOOLEAN :
               StartExecute(p, id, force, dryRun)
        \/ IsLockedExists(p)
        \/ IsLockedRead(p)
        \/ IsLockedProbe(p)
        \/ Purge(p)
        \/ LockWrite(p)
        \/ \E o \in RunOutcomes(proc[p].dryRun) : Run(p, o)
        \/ Unlock(p)
        \/ UpdateStateRead(p)
        \/ UpdateStateWrite(p)
        \/ CrontabRead(p)
        \/ RemoveWrite(p)
        \/ RegistryDelete(p)
        \/ \E enabled \in BOOLEAN, cron \in Crons,
              autoDelete \in BOOLEAN, maxRuns \in 0..MaxMaxRuns :
               StartCreate(p, enabled, cron, autoDelete, maxRuns)
        \/ SaveSchedule(p)
        \/ CreateAddWrite(p)
        \/ \E id \in Issued, enabled \in EnabledOpts, cron \in 0..NumCrons :
               StartEdit(p, id, enabled, cron)
        \/ EditAddWrite(p)
        \/ UpdateRead(p)
        \/ UpdateWrite(p)
        \/ \E id \in Issued, force \in BOOLEAN : StartDelete(p, id, force)
        \/ \E order \in Orders({i \in JobIds : store[i] # Null}) : StartInstall(p, order)
        \/ InstallRemoveWrite(p)
        \/ InstallAddWrite(p)
        \/ StartUninstall(p)
        \/ UninstallWrite(p)
        \/ Crash(p)

Spec == Init /\ [][Next]_vars

\* ============================================================== strings
\* The schedule parser and the crontab functions work on JavaScript strings
\* with regular expressions.  The strings are TLA+ strings, read one
\* character at a time with SubSeq.  A regular expression is a tree of
\* nodes (chr: a character of a set, nchr: a character outside a set, lit:
\* a text, cat, alt, opt, star, grp: a capture group, bos: ^, eos: $), and
\* Match explores it in the
\* order of a backtracking matcher (greedy quantifiers, alternatives left to
\* right), so that the first complete match is the one JavaScript reports.

\* \d
Digit == {"0", "1", "2", "3", "4", "5", "6", "7", "8", "9"}

\* \s, as far as the inputs of the model go: blank and tab
Space == {" ", "\t"}

RECURSIVE Match(_, _, _)
\* the matcher states (position after the match, captures) in which `re'
\* can end when it starts in one of the states sts of string s, in
\* backtracking order
Match(re, s, sts) ==
    IF Len(sts) = 0 THEN <<>>
    ELSE IF Len(sts) > 1
    THEN Match(re, s, SubSeq(sts, 1, Len(sts) \div 2))
           \o Match(re, s, SubSeq(sts, Len(sts) \div 2 + 1, Len(sts)))
    ELSE LET st == sts[1]
         IN  CASE re.op = "chr" ->
                    IF /\ st.pos <= Len(s)
                       /\ SubSeq(s, st.pos, st.pos) \in re.set
                    THEN <<[st EXCEPT !.pos = @ + 1]>> ELSE <<>>
               [] re.op = "nchr" ->
                    IF /\ st.pos <= Len(s)
                       /\ SubSeq(s, st.pos, st.pos) \notin re.set
                    THEN <<[st EXCEPT !.pos = @ + 1]>> ELSE <<>>
               [] re.op = "lit" ->
                    IF /\ st.pos + Len(re.text) - 1 <= Len(s)
                       /\ SubSeq(s, st.pos, st.pos + Len(re.text) - 1)
                            = re.text
                    THEN <<[st EXCEPT !.pos = @ + Len(re.text)]>>
                    ELSE <<>>
               [] re.op = "bos" -> IF st.pos = 1 THEN sts ELSE <<>>
               [] re.op = "eos" ->
                    IF st.pos = Len(s) + 1 THEN sts ELSE <<>>
               [] re.op = "cat" ->
                    IF Len(re.rs) = 0 THEN sts
                    ELSE Match([re EXCEPT !.rs = Tail(@)], s,
                               Match(Head(re.rs), s, sts))
               [] re.op = "alt" ->
                    IF Len(re.rs) = 0 THEN <<>>
                    ELSE Match(Head(re.rs), s, sts)
                           \o Match([re EXCEPT !.rs = Tail(@)], s, sts)
               [] re.op = "opt" -> Match(re.r, s, sts) \o sts
               [] re.op = "star" /\ re.r.op \in {"chr", "nchr"} ->
                    \* a run of characters of a class: the longest first
                    LET In(k) == (SubSeq(s, k, k) \in re.r.set)
                                   = (re.r.op = "chr")
                        most == CHOOSE n \in 0..(Len(s) + 1 - st.pos) :
                                 /\ \A k \in st.pos..(st.pos + n - 1) : In(k)
                                 /\ st.pos + n > Len(s) \/ ~In(st.pos + n)
                    IN  [k \in 1..(most + 1) |->
                           [st EXCEPT !.pos = @ + most + 1 - k]]
               [] re.op = "star" ->
                    Match(re, s, SelectSeq(Match(re.r, s, sts),
                                           LAMBDA m : m.pos > st.pos))
                      \o sts
               [] re.op = "grp" ->
                    LET ms == Match(re.r, s, sts)
                    IN  [k \in 1..Len(ms) |->
                           [ms[k] EXCEPT
                              !.caps[re.n] =
                                 SubSeq(s, st.pos, ms[k].pos - 1)]]

\* String.prototype.match without the g flag: the leftmost match, its
\* capture groups ("" for a group that took no part), where it starts and
\* the position after it
Exec(re, s) ==
    LET none == <<"", "", "", "", "">>
        Found(index, first) ==
            [matched |-> TRUE, index |-> index, end |-> first.pos,
             caps |-> first.caps]
        Leftmost(at, starts) ==
            IF starts = {}
            THEN [matched |-> FALSE, index |-> 0, end |-> 0, caps |-> none]
            ELSE Found(CHOOSE i \in starts : \A j \in starts : i <= j,
                       at[CHOOSE i \in starts : \A j \in starts : i <= j][1])
        Scan(at) == Leftmost(at, {i \in DOMAIN at : Len(at[i]) > 0})
    IN  Scan([i \in 1..(Len(s) + 1) |->
                Match(re, s, <<[pos |-> i, caps |-> none]>>)])

RECURSIVE Concat(_)
\* the strings of a sequence one after the other
Concat(strs) ==
    IF Len(strs) = 0 THEN "" ELSE Head(strs) \o Concat(Tail(strs))

\* also the i flag of a pattern: the patterns have lower-case letters only,
\* so they match an input the way they match the lower-cased input, at the
\* same positions
toLowerCase(s) ==
    LET upper == "ABCDEFGHIJKLMNOPQRSTUVWXYZ"
        lower == "abcdefghijklmnopqrstuvwxyz"
        at(c) == {k \in 1..Len(upper) : SubSeq(upper, k, k) = c}
    IN  Concat([i \in 1..Len(s) |->
                  IF at(SubSeq(s, i, i)) = {} THEN SubSeq(s, i, i)
                  ELSE LET k == CHOOSE k \in at(SubSeq(s, i, i)) : TRUE
                       IN  SubSeq(lower, k, k)])

trim(s) ==
    LET kept == {i \in 1..Len(s) : SubSeq(s, i, i) \notin Space}
    IN  IF kept = {} THEN ""
        ELSE SubSeq(s, CHOOSE i \in kept : \A j \in kept : i <= j,
                    CHOOSE i \in kept : \A j \in kept : i >= j)

RECURSIVE parseInt(_)
\* parseInt(str, 10) of a string of digits
parseInt(str) ==
    LET digits == "0123456789"
        last == SubSeq(str, Len(str), Len(str))
    IN  IF Len(str) = 0 THEN 0
        ELSE parseInt(SubSeq(str, 1, Len(str) - 1)) * 10
               + (CHOOSE k \in 1..Len(digits) : SubSeq(digits, k, k) = last)
               - 1

\* ======================================================= the crontab text
\* The commands above see the crontab through parseCrontab; this part is
\* the text itself.  A text is the sequence of lines split("\n") gives, so
\* a file that ends in a newline ends in an empty line, and the empty text
\* is one empty line.  Operations run one after another.

\* a line: the sentinels and the two notes are fixed strings, a user line
\* is told by its text, an entry line by its cron expression and job id
Line(kind, text) == [kind |-> kind, text |-> text, cron |-> 0, jobId |-> 0]

Blank == Line("blank", "")

UserLines == {Line("user", "MAILTO=ops"), Line("user", "0 3 * * * backup")}

\* existingContent.split("\n") of a crontab of user lines that ends in a
\* newline; no crontab at all reads as ""
RECURSIVE UserTexts(_)
UserTexts(n) ==
    IF n = 0
    THEN {<<Blank>>}
    ELSE UserTexts(n - 1) \cup
         {<<l>> \o t : l \in UserLines, t \in {u \in UserTexts(n - 1) : Len(u) = n}}

\* convertCronToUTC.  offsetHours is the offset of the timezone from UTC
\* at the time of the call (lines 50-56).  cronExpression.trim().split(/\s+/)
\* has five parts when the trimmed text is five runs of non-blank
\* characters, which the pattern reads.  The fields are made of the
\* characters of cron fields, so that a field without "*", ",", "/" and "-"
\* is a number.  With the empty timezone the commands leave, the
\* expression is returned as it is, whatever it is.
convertCronToUTC(cronExpression, sourceTimezone, offsetHours) ==
    LET Plus(r) == [op |-> "cat", rs |-> <<r, [op |-> "star", r |-> r]>>]
        Part(n) == [op |-> "grp", n |-> n,
                    r |-> Plus([op |-> "nchr", set |-> Space])]
        Ws1 == Plus([op |-> "chr", set |-> Space])
        fiveParts ==
            [op |-> "cat",
             rs |-> <<[op |-> "bos"], Part(1), Ws1, Part(2), Ws1, Part(3),
                      Ws1, Part(4), Ws1, Part(5), [op |-> "eos"]>>]
        isNumber(field) ==
            \A k \in 1..Len(field) : SubSeq(field, k, k) \in Digit
        \* shifted is hourNum - offsetHours
        Shift(minute, shifted, day, month, dayOfWeek) ==
            IF /\ shifted < 0 \/ shifted >= 24
               /\ isNumber(day)
               /\ IF shifted < 0 THEN parseInt(day) <= 1
                                 ELSE parseInt(day) >= 31
            THEN cronExpression
            ELSE minute \o " " \o ToString((shifted + 24) % 24) \o " "
                   \o (IF isNumber(day) /\ shifted < 0
                       THEN ToString(parseInt(day) - 1)
                       ELSE IF isNumber(day) /\ shifted >= 24
                       THEN ToString(parseInt(day) + 1)
                       ELSE day)
                   \o " " \o month \o " " \o dayOfWeek
        Convert(parts) ==
            IF ~parts.matched \/ ~isNumber(parts.caps[2])
            THEN cronExpression
            ELSE Shift(parts.caps[1], parseInt(parts.caps[2]) - offsetHours,
                       parts.caps[3], parts.caps[4], parts.caps[5])
    IN  IF sourceTimezone \in {"", "UTC", "Etc/UTC"}
        THEN cronExpression
        ELSE Convert(Exec(fiveParts, trim(cronExpression)))

\* `${utcCron} ${clawgatePath} schedule execute ${entry.jobId}${tzComment}`
TriggerLine(entry) ==
    [kind |-> "entry", text |-> "",
     cron |-> convertCronToUTC(entry.cronExpression, entry.timezone, 0),
     jobId |-> entry.jobId]

\* the loop of generateCrontab that collects the lines outside the section
RECURSIVE OutsideLines(_, _)
OutsideLines(lines, inClawGateSection) ==
    IF lines = <<>>
    THEN <<>>
    ELSE IF Head(lines).kind = "header"
    THEN OutsideLines(Tail(lines), TRUE)
    ELSE IF Head(lines).kind = "footer"
    THEN OutsideLines(Tail(lines), FALSE)
    ELSE IF ~inClawGateSection
    THEN <<Head(lines)>> \o OutsideLines(Tail(lines), inClawGateSection)
    ELSE OutsideLines(Tail(lines), inClawGateSection)

\* parseCrontab: the lines of the section that match the entry pattern
RECURSIVE parseCrontab(_, _)
parseCrontab(lines, inClawGateSection) ==
    IF lines = <<>>
    THEN <<>>
    ELSE IF Head(lines).kind = "header"
    THEN parseCrontab(Tail(lines), TRUE)
    ELSE IF Head(lines).kind = "footer"
    THEN parseCrontab(Tail(lines), FALSE)
    ELSE IF inClawGateSection /\ Head(lines).kind = "entry"
    THEN <<CronEntry(Head(lines).jobId, Head(lines).cron, "")>>
             \o parseCrontab(Tail(lines), inClawGateSection)
    ELSE parseCrontab(Tail(lines), inClawGateSection)

\* result.join("\n") + "\n", as the lines a later split("\n") gives
JoinNewline(result) ==
    (IF result = <<>> THEN <<Blank>> ELSE result) \o <<Blank>>

generateCrontab(existingContent, entries) ==
    JoinNewline(
        OutsideLines(existingContent, FALSE) \o
        (IF Len(entries) > 0
         THEN <<Blank, Line("header", ""), Line("note1", ""), Line("note2", "")>>
                  \o [i \in 1..Len(entries) |-> TriggerLine(entries[i])]
                  \o <<Line("footer", "")>>
         ELSE <<>>))

\* addToCrontab and removeFromCrontab, from readCrontab to writeCrontab
TextAfterAdd(existing, jobId, cronExpression) ==
    generateCrontab(existing,
                    addToCrontab(parseCrontab(existing, FALSE), jobId,
                                 cronExpression, ""))

TextAfterRemove(existing, jobId) ==
    generateCrontab(existing, removeFromCrontab(parseCrontab(existing, FALSE), jobId))

\* cron --install: for each job, removeFromCrontab then addToCrontab
RECURSIVE TextAfterInstall(_, _)
TextAfterInstall(existing, jobs) ==
    IF jobs = <<>>
    THEN existing
    ELSE TextAfterInstall(
             TextAfterAdd(TextAfterRemove(existing, Head(jobs).id),
                          Head(jobs).id, Head(jobs).cron),
             Tail(jobs))

\* what a job carries besides its id and its schedule
Names == {"daily report", "standup"}
Messages == {"send the report", "ping the team"}

TextJobs == [id : JobIds, cron : Crons, name : Names, message : Messages]

\* the jobs registry.getAll can return: each id once
JobLists ==
    {<<>>} \cup {<<j>> : j \in TextJobs} \cup
    {jk \in TextJobs \X TextJobs : jk[1].id # jk[2].id}

\* the entry line of job id in a text
EntryLineOf(lines, id) ==
    LET at == {i \in 1..Len(lines) : lines[i].kind = "entry" /\ lines[i].jobId = id}
    IN  lines[CHOOSE i \in at : TRUE]

TextInit ==
    /\ JobInit
    /\ CallsIdle
    /\ run = Null
    /\ original \in UserTexts(MaxUserLines)
    /\ content = original
    /\ written = {}

\* a line that also carries the name of the job
TextAddWithName(job) ==
    /\ Len(content) < MaxLines
    /\ content' = [i \in 1..Len(TextAfterAdd(content, job.id, job.cron)) |->
                      IF TextAfterAdd(content, job.id, job.cron)[i].kind = "entry"
                      THEN [TextAfterAdd(content, job.id, job.cron)[i]
                               EXCEPT !.text = job.name]
                      ELSE TextAfterAdd(content, job.id, job.cron)[i]]
    /\ written' = written \cup {[job |-> job, line |-> EntryLineOf(content', job.id)]}
    /\ UNCHANGED <<jobVars, original, run, callVars>>

\* create and edit --schedule: addToCrontab(job.id, schedule)
TextAdd(job) ==
    /\ Len(content) < MaxLines
    /\ content' = TextAfterAdd(content, job.id, job.cron)
    /\ written' = written \cup {[job |-> job, line |-> EntryLineOf(content', job.id)]}
    /\ UNCHANGED <<jobVars, original, run, callVars>>

\* delete, edit --schedule, auto-delete: removeFromCrontab(id)
TextRemove(id) ==
    /\ Len(content) < MaxLines
    /\ content' = TextAfterRemove(content, id)
    /\ UNCHANGED <<jobVars, original, written, run, callVars>>

TextInstall(jobs) ==
    /\ Len(content) < MaxLines
    /\ jobs # <<>>
    /\ content' = TextAfterInstall(content, jobs)
    /\ UNCHANGED <<jobVars, original, written, run, callVars>>

\* cron --uninstall: generateCrontab(existing, [])
TextUninstall ==
    /\ Len(content) < MaxLines
    /\ content' = generateCrontab(content, <<>>)
    /\ UNCHANGED <<jobVars, original, written, run, callVars>>

TextNext ==
    \/ \E job \in TextJobs : TextAdd(job)
    \/ \E id \in JobIds : TextRemove(id)
    \/ \E jobs \in JobLists : TextInstall(jobs)
    \/ TextUninstall

TextSpec == TextInit /\ [][TextNext]_vars

\* ====================================================== the trigger lines
\* The text above takes an entry line for the pair of an id and an
\* expression.  This part is the text of the entry lines: what
\* generateCrontab writes for an entry and what parseCrontab reads back
\* from it, one call of addToCrontab or removeFromCrontab after another on
\* the lines of the managed region.  addToCrontab is exported with its
\* third parameter, the timezone of the expression.

\* parseCrontab on the lines between the header and the footer:
\* /^(\S+\s+\S+\s+\S+\s+\S+\s+\S+)\s+node\s+.*\s+schedule\s+execute\s+(\S+)
\*   (?:\s+#\s+tz:(\S+))?$/
parseSection(lines) ==
    LET Cat(rs) == [op |-> "cat", rs |-> rs]
        Lit(text) == [op |-> "lit", text |-> text]
        Star(r) == [op |-> "star", r |-> r]
        Grp(n, r) == [op |-> "grp", n |-> n, r |-> r]
        NonSpaces == Cat(<<[op |-> "nchr", set |-> Space],
                           Star([op |-> "nchr", set |-> Space])>>)
        Ws1 == Cat(<<[op |-> "chr", set |-> Space],
                     Star([op |-> "chr", set |-> Space])>>)
        pattern ==
            Cat(<<[op |-> "bos"],
                  Grp(1, Cat(<<NonSpaces, Ws1, NonSpaces, Ws1, NonSpaces,
                               Ws1, NonSpaces, Ws1, NonSpaces>>)),
                  Ws1, Lit("node"), Ws1,
                  Star([op |-> "nchr", set |-> {"\n"}]),
                  Ws1, Lit("schedule"), Ws1, Lit("execute"), Ws1,
                  Grp(2, NonSpaces),
                  [op |-> "opt",
                   r |-> Cat(<<Ws1, Lit("#"), Ws1, Lit("tz:"),
                               Grp(3, NonSpaces)>>)],
                  [op |-> "eos"]>>)
        \* line.trim() && !line.startsWith("#"), and the line matches
        Read(line) ==
            IF trim(line) = "" \/ SubSeq(line, 1, 1) = "#"
            THEN [matched |-> FALSE]
            ELSE Exec(pattern, line)
        Entries(matches) ==
            [k \in 1..Len(matches) |->
               CronEntry(matches[k].caps[2], matches[k].caps[1],
                         matches[k].caps[3])]
    IN  Entries(SelectSeq([k \in 1..Len(lines) |-> Read(lines[k])],
                          LAMBDA m : m.matched))

\* the lines generateCrontab writes between the notes and the footer:
\* `${utcCron} ${clawgatePath} schedule execute ${entry.jobId}${tzComment}`
generateSection(entries, offsetHours) ==
    LET \* getClawgatePath() where HOME is not set
        clawgatePath ==
            "node /home/office/Emma\\ Projects/clawgate/dist/scheduler/cli.js"
        tzComment(entry) ==
            IF entry.timezone # "" THEN " # tz:" \o entry.timezone ELSE ""
    IN  [k \in 1..Len(entries) |->
           convertCronToUTC(entries[k].cronExpression, entries[k].timezone,
                            offsetHours)
             \o " " \o clawgatePath \o " schedule execute "
             \o entries[k].jobId \o tzComment(entries[k])]

\* the offset of Europe/Vilnius from UTC is 2 hours, and 3 in summer
TableInit ==
    /\ JobInit
    /\ SideIdle
    /\ reg = Null
    /\ sched = Null
    /\ \E offsetHours \in {2, 3} :
         table = [lines |-> <<>>, before |-> <<>>, calls |-> 0,
                  offsetHours |-> offsetHours,
                  call |-> [op |-> "none", jobId |-> "",
                            cronExpression |-> "", timezone |-> ""]]

\* addToCrontab(jobId, cronExpression, timezone)
TableAdd(jobId, cronExpression, timezone) ==
    /\ table.calls < MaxRewrites
    /\ table' = [table EXCEPT
                    !.lines = generateSection(
                                  addToCrontab(parseSection(table.lines),
                                               jobId, cronExpression,
                                               timezone),
                                  table.offsetHours),
                    !.before = table.lines,
                    !.calls = @ + 1,
                    !.call = [op |-> "add", jobId |-> jobId,
                              cronExpression |-> cronExpression,
                              timezone |-> timezone]]
    /\ UNCHANGED <<jobVars, content, original, written, run, reg, sched>>

\* removeFromCrontab(jobId)
TableRemove(jobId) ==
    /\ table.calls < MaxRewrites
    /\ table' = [table EXCEPT
                    !.lines = generateSection(
                                  removeFromCrontab(parseSection(table.lines),
                                                    jobId),
                                  table.offsetHours),
                    !.before = table.lines,
                    !.calls = @ + 1,
                    !.call = [op |-> "remove", jobId |-> jobId,
                              cronExpression |-> "", timezone |-> ""]]
    /\ UNCHANGED <<jobVars, content, original, written, run, reg, sched>>

\* two ids stand for the ids randomUUID gives.  The expressions are one
\* that compile gives for "daily at 6am", one at the first of the month,
\* and one that edit --schedule accepts as it is typed, with a blank in
\* front (validateCronExpression trims before it counts the fields).
TableNext ==
    \/ \E jobId \in {"7f3a", "c21e"},
          cronExpression \in {"0 6 * * *", "30 1 1 * *", " 0 9 * * 1"},
          timezone \in {"", "Europe/Vilnius"} :
            TableAdd(jobId, cronExpression, timezone)
    \/ \E jobId \in {"7f3a", "c21e"} : TableRemove(jobId)

TableSpec == TableInit /\ [][TableNext]_vars

\* ============================================================= runCommand
\* One call of Executor.runCommand, from spawn to the resolution of its
\* promise.  Time is counted in units of 5000 ms.  A timer callback runs
\* when its delay has elapsed and before the clock moves on; it never runs
\* early.  Once the promise is resolved the execute action runs to
\* process.exit without returning to the event loop, so no timer fires
\* after that.

\* this.handoffGraceMs = handoffGraceMs || 30000: the CLI passes none
HandoffGraceMs == 6

\* setTimeout(() => child.kill("SIGKILL"), 5000)
KillDelayMs == 1

\* exit code `null` of a child that a signal ended
NoCode == -1

MaxClock == MaxTimeout + HandoffGraceMs + KillDelayMs + 1

\* hangs: the child never exits unless a signal ends it
\* onTerm: whether SIGTERM ends the child
\* child: "none", "running", "exited", "failed" (spawn emitted 'error')
\* code: the exit code passed to 'close'; killedBy: the signal that ended it
\* executionTimer, killTimer, sigkillTimer: "none", "armed", "fired", "cleared"
\* signals: the signals that reached the child, with the time each was sent
\* spawns: how many times spawn was called
\* result: what the promise resolved with
RunStart(timeoutMs, maxRetries, hangs, onTerm) ==
    [timeoutMs |-> timeoutMs, maxRetries |-> maxRetries,
     hangs |-> hangs, onTerm |-> onTerm,
     clock |-> 0, startTime |-> 0, child |-> "none", code |-> NoCode,
     killedBy |-> "none", executionExceeded |-> FALSE,
     executionTimer |-> "none", killTimer |-> "none", sigkillTimer |-> "none",
     sigkillAt |-> 0, signals |-> <<>>, spawns |-> 0, result |-> Null]

RunInit ==
    /\ JobInit
    /\ CallsIdle
    /\ content = <<>>
    /\ original = <<>>
    /\ written = {}
    /\ run \in {RunStart(t, m, h, o) : t \in 1..MaxTimeout, m \in 0..MaxRetries,
                                       h \in BOOLEAN, o \in {"die", "ignore"}}

\* const totalTimeout = executionTimeout + this.handoffGraceMs, from spawn
KillDeadlineWithoutGrace(r) == r.startTime + r.timeoutMs

KillDeadline(r) == r.startTime + r.timeoutMs + HandoffGraceMs

ExecutionDeadline(r) == r.startTime + r.timeoutMs

\* child.kill(sig): the signal reaches the child if it has not exited
Kill(r, sig) ==
    IF r.child = "running"
    THEN Append(r.signals, [sig |-> sig, at |-> r.clock])
    ELSE r.signals

Sent(sig) == \E i \in 1..Len(run.signals) : run.signals[i].sig = sig

\* a timer whose delay has elapsed and whose callback has still to run
TimerDue ==
    \/ run.executionTimer = "armed" /\ run.clock >= ExecutionDeadline(run)
    \/ run.killTimer = "armed" /\ run.clock >= KillDeadline(run)
    \/ run.sigkillTimer = "armed" /\ run.clock >= run.sigkillAt

\* spawn(args[0], args.slice(1), ...), then the two setTimeout calls; a
\* spawn that fails emits 'error' later
Spawn(ok) ==
    /\ run.child = "none"
    /\ run' = [run EXCEPT !.child = IF ok THEN "running" ELSE "failed",
                          !.startTime = run.clock,
                          !.spawns = run.spawns + 1,
                          !.executionTimer = "armed", !.killTimer = "armed"]
    /\ UNCHANGED <<jobVars, content, original, written, callVars>>

Tick ==
    /\ run.child # "none"
    /\ run.result = Null
    /\ run.clock < MaxClock
    /\ ~TimerDue
    /\ run' = [run EXCEPT !.clock = run.clock + 1]
    /\ UNCHANGED <<jobVars, content, original, written, callVars>>

\* executionTimer: executionExceeded = true and a log line
ExecutionTimerFires ==
    /\ run.result = Null
    /\ run.executionTimer = "armed"
    /\ run.clock >= ExecutionDeadline(run)
    /\ run' = [run EXCEPT !.executionTimer = "fired", !.executionExceeded = TRUE]
    /\ UNCHANGED <<jobVars, content, original, written, callVars>>

\* killTimer: child.kill("SIGTERM") and the timer of the SIGKILL
KillTimerFires ==
    /\ run.result = Null
    /\ run.killTimer = "armed"
    /\ run.clock >= KillDeadline(run)
    /\ run' = [run EXCEPT !.killTimer = "fired",
                          !.signals = Kill(run, "SIGTERM"),
                          !.sigkillTimer = "armed",
                          !.sigkillAt = run.clock + KillDelayMs]
    /\ UNCHANGED <<jobVars, content, original, written, callVars>>

\* a second SIGTERM in place of the SIGKILL
SigkillTimerSendsTerm ==
    /\ run.result = Null
    /\ run.sigkillTimer = "armed"
    /\ run.clock >= run.sigkillAt
    /\ run' = [run EXCEPT !.sigkillTimer = "fired",
                          !.signals = Kill(run, "SIGTERM")]
    /\ UNCHANGED <<jobVars, content, original, written, callVars>>

\* setTimeout(() => child.kill("SIGKILL"), 5000)
SigkillTimerFires ==
    /\ run.result = Null
    /\ run.sigkillTimer = "armed"
    /\ run.clock >= run.sigkillAt
    /\ run' = [run EXCEPT !.sigkillTimer = "fired",
                          !.signals = Kill(run, "SIGKILL")]
    /\ UNCHANGED <<jobVars, content, original, written, callVars>>

\* the child exits by itself, with status 0 or not
ChildExits(code) ==
    /\ run.child = "running"
    /\ ~run.hangs
    /\ run' = [run EXCEPT !.child = "exited", !.code = code]
    /\ UNCHANGED <<jobVars, content, original, written, callVars>>

\* a signal ends the child: SIGKILL always, SIGTERM unless the child
\* ignores it; 'close' then gets code null
ChildKilled(sig) ==
    /\ run.child = "running"
    /\ Sent(sig)
    /\ sig = "SIGTERM" => run.onTerm = "die"
    /\ run' = [run EXCEPT !.child = "exited", !.code = NoCode, !.killedBy = sig]
    /\ UNCHANGED <<jobVars, content, original, written, callVars>>

\* clearTimeout of a timer that has not fired
Cleared(timer) == IF timer = "armed" THEN "cleared" ELSE timer

\* a result that is a success only within the execution timeout
CloseResultInTimeOnly(r) ==
    [success |-> (r.code = 0 /\ ~r.executionExceeded),
     exitCode |-> IF r.code = NoCode THEN 1 ELSE r.code]

\* the result the 'close' handler resolves with: exitCode: code ?? 1
CloseResult(r) ==
    [success |-> (r.code = 0),
     exitCode |-> IF r.code = NoCode THEN 1 ELSE r.code]

\* a 'close' handler that spawns again after a failure while retries are left
CloseHandlerRetries ==
    /\ run.child = "exited"
    /\ run.result = Null
    /\ run' = IF run.code # 0 /\ run.spawns <= run.maxRetries
              THEN [run EXCEPT !.child = "running", !.code = NoCode,
                               !.killedBy = "none",
                               !.startTime = run.clock,
                               !.spawns = run.spawns + 1,
                               !.executionTimer = "armed", !.killTimer = "armed"]
              ELSE [run EXCEPT !.executionTimer = Cleared(run.executionTimer),
                               !.killTimer = Cleared(run.killTimer),
                               !.result = CloseResult(run)]
    /\ UNCHANGED <<jobVars, content, original, written, callVars>>

\* child.on("close", (code) => ...)
CloseHandler ==
    /\ run.child = "exited"
    /\ run.result = Null
    /\ run' = [run EXCEPT !.executionTimer = Cleared(run.executionTimer),
                          !.killTimer = Cleared(run.killTimer),
                          !.result = CloseResult(run)]
    /\ UNCHANGED <<jobVars, content, original, written, callVars>>

\* an 'error' handler that clears the timers and leaves the promise pending
ErrorHandlerLeavesPending ==
    /\ run.child = "failed"
    /\ run.result = Null
    /\ run' = [run EXCEPT !.executionTimer = Cleared(run.executionTimer),
                          !.killTimer = Cleared(run.killTimer)]
    /\ UNCHANGED <<jobVars, content, original, written, callVars>>

\* child.on("error", (err) => ...)
ErrorHandler ==
    /\ run.child = "failed"
    /\ run.result = Null
    /\ run' = [run EXCEPT !.executionTimer = Cleared(run.executionTimer),
                          !.killTimer = Cleared(run.killTimer),
                          !.result = [success |-> FALSE, exitCode |-> 8]]
    /\ UNCHANGED <<jobVars, content, original, written, callVars>>

\* the exit status of the execute action for a result:
\* process.exit(0), or process.exit(result.exitCode || 8)
ProcessExitCode(result) ==
    IF result.success THEN 0
    ELSE IF result.exitCode = 0 THEN 8
    ELSE result.exitCode

RunNext ==
    \/ \E ok \in BOOLEAN : Spawn(ok)
    \/ Tick
    \/ ExecutionTimerFires
    \/ KillTimerFires
    \/ SigkillTimerFires
    \/ \E code \in {0, 1} : ChildExits(code)
    \/ \E sig \in {"SIGTERM", "SIGKILL"} : ChildKilled(sig)
    \/ CloseHandler
    \/ ErrorHandler

RunSpec == RunInit /\ [][RunNext]_vars

\* the event loop keeps running callbacks and the clock keeps moving
FairRunSpec == RunSpec /\ WF_vars(RunNext)

\* ------------------------------------------- execute around runCommand
\* Executor.execute with its runCommand call followed timer by timer: the
\* job is in the store, the invocations are execute commands, and the one
\* that awaits runCommand is the one whose child, timers and signals `run'
\* holds.  No process is killed from outside.

ExecInit ==
    /\ store = [i \in JobIds |-> NewJob(TRUE, 1, FALSE, 0)]
    /\ schedules = [i \in JobIds |-> 1]
    /\ crontab = [i \in JobIds |-> CronEntry(i, 1, "")]
    /\ locks = [i \in JobIds |-> 0]
    /\ nextId = NumJobs
    /\ proc = [p \in Procs |-> Idle]
    /\ overlapped = FALSE
    /\ SideIdle
    /\ CallsIdle

\* await this.runCommand(command, executionTimeout, totalTimeout, logger)
\* once the payload is resolved and the command built
ExecAwait(p, timeoutMs, hangs, onTerm) ==
    /\ proc[p].pc = "run"
    /\ ~proc[p].dryRun
    /\ run = Null
    /\ run' = RunStart(timeoutMs, 0, hangs, onTerm)
    /\ Set(p, [proc[p] EXCEPT !.pc = "await"])
    /\ UNCHANGED <<store, schedules, crontab, locks, nextId, overlapped,
                   content, original, written, callVars>>

\* the promise of runCommand is resolved: the execution is logged and
\* `return result' enters the finally block
ExecResolved(p) ==
    /\ proc[p].pc = "await"
    /\ run.result # Null
    /\ run' = Null
    /\ Set(p, [proc[p] EXCEPT
                  !.pc = "unlock",
                  !.outcome = IF run.result.success THEN "ok"
                              ELSE IF run.result.exitCode = 8 THEN "spawnerr"
                              ELSE "fail",
                  !.success = run.result.success,
                  !.spawned = TRUE,
                  !.exitCode = run.result.exitCode])
    /\ UNCHANGED <<store, schedules, crontab, locks, nextId, overlapped,
                   content, original, written, callVars>>

ExecNext ==
    \/ \E p \in 1..NumExecs :
        \/ \E id \in Issued, dryRun \in BOOLEAN :
               StartExecute(p, id, FALSE, dryRun)
        \/ IsLockedExists(p)
        \/ IsLockedRead(p)
        \/ IsLockedProbe(p)
        \/ Purge(p)
        \/ LockWrite(p)
        \/ \E o \in RunOutcomes(proc[p].dryRun) \ {"ok", "fail", "spawnerr"} :
               Run(p, o)
        \/ \E hangs \in BOOLEAN, onTerm \in {"die", "ignore"} :
               ExecAwait(p, MaxTimeout, hangs, onTerm)
        \/ ExecResolved(p)
        \/ Unlock(p)
        \/ UpdateStateRead(p)
        \/ UpdateStateWrite(p)
    \/ run # Null /\ RunNext

ExecSpec == ExecInit /\ [][ExecNext]_vars

\* every invocation is scheduled, the event loop of the one that awaits
\* keeps running callbacks, and the clock keeps moving
FairExecSpec == ExecSpec /\ WF_vars(ExecNext)

\* =============================================================== Registry
\* The Registry called as a library, one call after another: create, get,
\* update, updateState and delete on the files of jobsDir.  A job is the
\* record its JSON text holds; a file is named after the id of the job
\* saveJob is given.

RegIds == 1..NumRegIds

\* timeoutMs: 60000 in Registry.create
CreateTimeoutMs == 60000

\* DEFAULT_CONFIG.defaults.timeoutMs
ConfigTimeoutMs == 300000

ZeroState ==
    [lastRun |-> "null", lastResult |-> "null", runCount |-> 0, failCount |-> 0]

\* the CreateJobInput of the create action, as far as the job depends on it;
\* enabled "unset": the input has no enabled field
CreateInputs ==
    [schedule : Crons, enabled : {"unset", "true", "false"},
     autoDelete : BOOLEAN, maxRuns : 0..MaxMaxRuns]

\* the job Registry.create builds and saves
CreatedJob(id, input) ==
    [id |-> id,
     enabled |-> (input.enabled # "false"),
     timeoutMs |-> CreateTimeoutMs,
     state |-> ZeroState]

\* {...a, ...b}
Spread(a, b) ==
    [k \in DOMAIN a \cup DOMAIN b |-> IF k \in DOMAIN b THEN b[k] ELSE a[k]]

\* an update that lets the partial input overwrite the id
UpdatedJobUnpinned(job, updates) ==
    Spread(job, updates)

\* Registry.update: {...job, ...updates, id: job.id}
UpdatedJob(job, updates) ==
    Spread(Spread(job, updates), [id |-> job.id])

\* Registry.updateState: job.state = {...job.state, ...state}
JobWithState(job, state) ==
    Spread(job, [state |-> Spread(job.state, state)])

\* saveJob: writeFileSync(join(jobsDir, `${job.id}.json`), ...)
saveJob(files, job) == [files EXCEPT ![job.id] = job]

\* the partial jobs and partial states the calls are given
UpdateInputs ==
    {[id |-> i] : i \in RegIds} \cup
    {[enabled |-> b] : b \in BOOLEAN} \cup
    {[id |-> i, schedule |-> c] : i \in RegIds, c \in Crons}

StateInputs ==
    {[runCount |-> 1, lastResult |-> "success"],
     [runCount |-> 1, failCount |-> 1, lastResult |-> "failure"],
     [id |-> NumRegIds]}

RegInit ==
    /\ JobInit
    /\ SideIdle
    /\ sched = Null
    /\ table = Null
    /\ reg = [files |-> [i \in RegIds |-> Null], issued |-> 0,
              call |-> [op |-> "none", id |-> 0, input |-> Null,
                        ret |-> Null, before |-> [i \in RegIds |-> Null]]]

\* the call just made, what it was given, what it returned, and the files
\* before it
Called(op, id, input, ret) ==
    [op |-> op, id |-> id, input |-> input, ret |-> ret, before |-> reg.files]

\* create(input): randomUUID gives an id never given before
RegCreate(input) ==
    /\ reg.issued < NumRegIds
    /\ LET job == CreatedJob(reg.issued + 1, input)
       IN  reg' = [files |-> saveJob(reg.files, job),
                   issued |-> reg.issued + 1,
                   call |-> Called("create", job.id, input, job)]
    /\ UNCHANGED <<jobVars, content, original, written, run, sched, table>>

\* get(id)
RegGet(id) ==
    /\ reg' = [reg EXCEPT !.call = Called("get", id, Null, reg.files[id])]
    /\ UNCHANGED <<jobVars, content, original, written, run, sched, table>>

\* update(id, updates)
RegUpdate(id, updates) ==
    /\ reg' = IF reg.files[id] = Null
              THEN [reg EXCEPT !.call = Called("update", id, updates, Null)]
              ELSE [reg EXCEPT
                       !.files = saveJob(@, UpdatedJob(reg.files[id], updates)),
                       !.call = Called("update", id, updates,
                                       UpdatedJob(reg.files[id], updates))]
    /\ UNCHANGED <<jobVars, content, original, written, run, sched, table>>

\* an updateState that writes a record for an id that has none
RegUpdateStateUpserts(id, state) ==
    /\ reg' = IF reg.files[id] = Null
              THEN [reg EXCEPT
                       !.files = saveJob(@, [id |-> id, state |-> state]),
                       !.call = Called("updateState", id, state, Null)]
              ELSE [reg EXCEPT
                       !.files = saveJob(@, JobWithState(reg.files[id], state)),
                       !.call = Called("updateState", id, state,
                                       JobWithState(reg.files[id], state))]
    /\ UNCHANGED <<jobVars, content, original, written, run, sched, table>>

\* updateState(id, state)
RegUpdateState(id, state) ==
    /\ reg' = IF reg.files[id] = Null
              THEN [reg EXCEPT !.call = Called("updateState", id, state, Null)]
              ELSE [reg EXCEPT
                       !.files = saveJob(@, JobWithState(reg.files[id], state)),
                       !.call = Called("updateState", id, state,
                                       JobWithState(reg.files[id], state))]
    /\ UNCHANGED <<jobVars, content, original, written, run, sched, table>>

\* delete(id): returns whether the job file was there
RegDelete(id) ==
    /\ reg' = [reg EXCEPT
                  !.files = [@ EXCEPT ![id] = Null],
                  !.call = Called("delete", id, Null,
                                  [deleted |-> reg.files[id] # Null])]
    /\ UNCHANGED <<jobVars, content, original, written, run, sched, table>>

RegNext ==
    \/ \E input \in CreateInputs : RegCreate(input)
    \/ \E id \in RegIds : RegGet(id)
    \/ \E id \in RegIds, updates \in UpdateInputs : RegUpdate(id, updates)
    \/ \E id \in RegIds, state \in StateInputs : RegUpdateState(id, state)
    \/ \E id \in RegIds : RegDelete(id)

RegSpec == RegInit /\ [][RegNext]_vars

\* ======================================================= schedule parser
\* the regular expression literals of the parser, each under the name of
\* the variable that receives its match (parseTime and baseInput: of the
\* function and of the variable they are used for); time is the text of a
\* time of day, which nine of them share
Patterns ==
    LET Chr(set) == [op |-> "chr", set |-> set]
        Lit(text) == [op |-> "lit", text |-> text]
        Cat(rs) == [op |-> "cat", rs |-> rs]
        Alt(rs) == [op |-> "alt", rs |-> rs]
        Opt(r) == [op |-> "opt", r |-> r]
        Star(r) == [op |-> "star", r |-> r]
        Plus(r) == Cat(<<r, Star(r)>>)
        Grp(n, r) == [op |-> "grp", n |-> n, r |-> r]
        Bos == [op |-> "bos"]                                  \* ^
        Eos == [op |-> "eos"]                                  \* $
        Ws1 == Plus(Chr(Space))                                \* \s+
        Ws0 == Star(Chr(Space))                                \* \s*
        Number == Plus(Chr(Digit))                             \* \d+
        Hour == Cat(<<Chr(Digit), Opt(Chr(Digit))>>)           \* \d{1,2}
        AmPm == Alt(<<Lit("am"), Lit("pm")>>)                  \* am|pm
        letters == "abcdefghijklmnopqrstuvwxyzABCDEFGHIJKLMNOPQRSTUVWXYZ"
        \* \w+
        Word == Plus(Chr({SubSeq(letters, k, k) : k \in 1..Len(letters)}
                           \cup Digit \cup {"_"}))
        \* [\d*\/,-]+
        Field == Plus(Chr(Digit \cup {"*", "/", ",", "-"}))
        \* [\d:]+(?:\s*[ap]m)?
        Time == Cat(<<Plus(Chr(Digit \cup {":"})),
                      Opt(Cat(<<Ws0, Chr({"a", "p"}), Lit("m")>>))>>)
        \* monday|mon|tuesday|tue|tues|wednesday|wed|thursday|thu|thurs|
        \* friday|fri|saturday|sat|sunday|sun
        Day == Alt(<<Lit("monday"), Lit("mon"), Lit("tuesday"), Lit("tue"),
                     Lit("tues"), Lit("wednesday"), Lit("wed"),
                     Lit("thursday"), Lit("thu"), Lit("thurs"),
                     Lit("friday"), Lit("fri"), Lit("saturday"), Lit("sat"),
                     Lit("sunday"), Lit("sun")>>)
        \* x|times?
        Times == Alt(<<Lit("x"), Cat(<<Lit("time"), Opt(Lit("s"))>>)>>)
    IN  [time |-> Time,
         \* /^(\d{1,2})(?::(\d{2}))?\s*(am|pm)?$/i
         parseTime |->
           Cat(<<Bos, Grp(1, Hour),
                 Opt(Cat(<<Lit(":"),
                           Grp(2, Cat(<<Chr(Digit), Chr(Digit)>>))>>)),
                 Ws0, Opt(Grp(3, AmPm)), Eos>>),
         \* /^(?:every|each)\s+(\d+)?\s*(min|minute|minutes|hour|hours|day|
         \*   days|week|weeks|month|months)$/
         intervalMatch |->
           Cat(<<Bos, Alt(<<Lit("every"), Lit("each")>>), Ws1,
                 Opt(Grp(1, Number)), Ws0,
                 Grp(2, Alt(<<Lit("min"), Lit("minute"), Lit("minutes"),
                              Lit("hour"), Lit("hours"), Lit("day"),
                              Lit("days"), Lit("week"), Lit("weeks"),
                              Lit("month"), Lit("months")>>)), Eos>>),
         \* /^every\s+(DAY)\s+(?:at\s+)?(TIME)$/
         dayAtTimeMatch |->
           Cat(<<Bos, Lit("every"), Ws1, Grp(1, Day), Ws1,
                 Opt(Cat(<<Lit("at"), Ws1>>)), Grp(2, Time), Eos>>),
         \* /^(TIME)\s+every\s+(DAY)$/
         timeEveryDayMatch |->
           Cat(<<Bos, Grp(1, Time), Ws1, Lit("every"), Ws1, Grp(2, Day),
                 Eos>>),
         \* /^every\s+(DAY)$/
         dayOnlyMatch |-> Cat(<<Bos, Lit("every"), Ws1, Grp(1, Day), Eos>>),
         \* /^every\s+(weekday|weekday|weekend)$/
         specialDayMatch |->
           Cat(<<Bos, Lit("every"), Ws1,
                 Grp(1, Alt(<<Lit("weekday"), Lit("weekday"),
                              Lit("weekend")>>)), Eos>>),
         \* /^(?:everyday|daily)(?:\s+at\s+(TIME))?$/
         dailyMatch |->
           Cat(<<Bos, Alt(<<Lit("everyday"), Lit("daily")>>),
                 Opt(Cat(<<Ws1, Lit("at"), Ws1, Grp(1, Time)>>)), Eos>>),
         \* /^(TIME)\s+(?:everyday|daily)$/
         timeDailyMatch |->
           Cat(<<Bos, Grp(1, Time), Ws1,
                 Alt(<<Lit("everyday"), Lit("daily")>>), Eos>>),
         \* /^in\s+(\d+)\s*(min|minute|minutes|hour|hours)$/
         inMatch |->
           Cat(<<Bos, Lit("in"), Ws1, Grp(1, Number), Ws0,
                 Grp(2, Alt(<<Lit("min"), Lit("minute"), Lit("minutes"),
                              Lit("hour"), Lit("hours")>>)), Eos>>),
         \* /^at\s+(TIME)\s+today$/
         todayMatch |->
           Cat(<<Bos, Lit("at"), Ws1, Grp(1, Time), Ws1, Lit("today"),
                 Eos>>),
         \* /^next\s+(DAY)(?:\s+at\s+(TIME))?$/
         nextDayMatch |->
           Cat(<<Bos, Lit("next"), Ws1, Grp(1, Day),
                 Opt(Cat(<<Ws1, Lit("at"), Ws1, Grp(2, Time)>>)), Eos>>),
         \* /^on\s+(?:the\s+)?(\d{1,2})(?:st|nd|rd|th)?\s+of\s+(\w+)
         \*   (?:\s+at\s+(TIME))?$/
         monthDayMatch |->
           Cat(<<Bos, Lit("on"), Ws1, Opt(Cat(<<Lit("the"), Ws1>>)),
                 Grp(1, Hour),
                 Opt(Alt(<<Lit("st"), Lit("nd"), Lit("rd"), Lit("th")>>)),
                 Ws1, Lit("of"), Ws1, Grp(2, Word),
                 Opt(Cat(<<Ws1, Lit("at"), Ws1, Grp(3, Time)>>)), Eos>>),
         \* /^at\s+(\d{1,2})(am|pm)$/
         ampmMatch |->
           Cat(<<Bos, Lit("at"), Ws1, Grp(1, Hour), Grp(2, AmPm), Eos>>),
         \* /^(\d{1,2})(am|pm)$/
         simpleTimeMatch |-> Cat(<<Bos, Grp(1, Hour), Grp(2, AmPm), Eos>>),
         \* /(\d+)\s*(?:x|times?)\s*$/i
         countMatch |-> Cat(<<Grp(1, Number), Ws0, Times, Ws0, Eos>>),
         \* /\s*\d+\s*(?:x|times?)\s*$/i
         baseInput |-> Cat(<<Ws0, Number, Ws0, Times, Ws0, Eos>>),
         \* /^([\d*\/,-]+)\s+([\d*\/,-]+)\s+([\d*\/,-]+)\s+([\d*\/,-]+)\s+
         \*   ([\d*\/,-]+)$/
         cronMatch |->
           Cat(<<Bos, Grp(1, Field), Ws1, Grp(2, Field), Ws1, Grp(3, Field),
                 Ws1, Grp(4, Field), Ws1, Grp(5, Field), Eos>>)]

\* input.toLowerCase().trim().replace(/\s+/g, ' ')
normalize(input) ==
    LET s == trim(toLowerCase(input))
    IN  Concat([i \in 1..Len(s) |->
                  IF SubSeq(s, i, i) \notin Space THEN SubSeq(s, i, i)
                  ELSE IF SubSeq(s, i - 1, i - 1) \in Space THEN ""
                  ELSE " "])

DAYS ==
    [sun |-> 0, sunday |-> 0, mon |-> 1, monday |-> 1,
     tue |-> 2, tuesday |-> 2, tues |-> 2, wed |-> 3, wednesday |-> 3,
     thu |-> 4, thursday |-> 4, thurs |-> 4, fri |-> 5, friday |-> 5,
     sat |-> 6, saturday |-> 6]

MONTHS ==
    [jan |-> 1, january |-> 1, feb |-> 2, february |-> 2, mar |-> 3,
     march |-> 3, apr |-> 4, april |-> 4, may |-> 5, jun |-> 6, june |-> 6,
     jul |-> 7, july |-> 7, aug |-> 8, august |-> 8, sep |-> 9,
     september |-> 9, sept |-> 9, oct |-> 10, october |-> 10, nov |-> 11,
     november |-> 11, dec |-> 12, december |-> 12]

\* ok = FALSE stands for the Error thrown
parseTime(timeStr) ==
    LET Error == [ok |-> FALSE, hour |-> 0, minute |-> 0]
        Hour(hour, ampm) ==
            IF ampm = "pm" /\ hour # 12 THEN hour + 12
            ELSE IF ampm = "am" /\ hour = 12 THEN 0 ELSE hour
        Checked(hour, minute) ==
            IF hour < 0 \/ hour > 23 \/ minute < 0 \/ minute > 59
            THEN Error
            ELSE [ok |-> TRUE, hour |-> hour, minute |-> minute]
        Read(match) ==
            IF ~match.matched THEN Error
            ELSE Checked(Hour(parseInt(match.caps[1]), match.caps[3]),
                         IF match.caps[2] # "" THEN parseInt(match.caps[2])
                         ELSE 0)
    IN  Read(Exec(Patterns.parseTime, toLowerCase(timeStr)))

\* -1 stands for the Error thrown
parseDay(dayStr) ==
    IF toLowerCase(dayStr) \in DOMAIN DAYS
    THEN DAYS[toLowerCase(dayStr)] ELSE -1

\* -1 stands for the Error thrown
parseMonth(monthStr) ==
    IF toLowerCase(monthStr) \in DOMAIN MONTHS
    THEN MONTHS[toLowerCase(monthStr)] ELSE -1

RECURSIVE addDays(_, _)
\* Date.setDate(getDate() + k) and the overflow of new Date(ms) into the
\* next days: the date rolls over into the next months.  A Date is read in
\* local time: minutes, hours, date, month (getMonth() + 1), day (getDay)
\* and whether its year is a leap year.
addDays(d, k) ==
    LET days == IF d.month = 2 THEN (IF d.leap THEN 29 ELSE 28)
                ELSE IF d.month \in {4, 6, 9, 11} THEN 30 ELSE 31
    IN  IF d.date + k <= days
        THEN [d EXCEPT !.date = @ + k, !.day = (@ + k) % 7]
        ELSE addDays([d EXCEPT !.date = 0,
                               !.month = IF @ = 12 THEN 1 ELSE @ + 1,
                               !.leap = IF d.month = 12 THEN FALSE ELSE @,
                               !.day = (@ + days - d.date) % 7],
                     k - (days - d.date))

\* a ParseResult without its description; maxRuns = 0 is the absent field
\* (a count of 0 never reaches the result)
Parsed(cron) ==
    [ok |-> TRUE, cronExpression |-> cron, maxRuns |-> 0,
     isOneTime |-> FALSE]

\* the Error thrown by parseSchedule, parseTime, parseDay or parseMonth
ParseError ==
    [ok |-> FALSE, cronExpression |-> "", maxRuns |-> 0,
     isOneTime |-> FALSE]

\* input.replace(/\s*\d+\s*(?:x|times?)\s*$/i, '').trim()
baseInput(input) ==
    LET m == Exec(Patterns.baseInput, toLowerCase(input))
    IN  IF m.matched
        THEN trim(SubSeq(input, 1, m.index - 1)
                    \o SubSeq(input, m.end, Len(input)))
        ELSE trim(input)

CountedDropsCount(baseResult, maxRuns) == baseResult

\* { ...baseResult, maxRuns }, or the Error of the base parse
Counted(baseResult, maxRuns) ==
    IF baseResult.ok THEN [baseResult EXCEPT !.maxRuns = maxRuns]
    ELSE baseResult

\* an interval rule that steps by one month whatever the value
IntervalMonthIgnoresValue(value, unit) ==
    LET startsWith(prefix) ==
            Len(unit) >= Len(prefix) /\ SubSeq(unit, 1, Len(prefix)) = prefix
        step == "*/" \o ToString(value)
    IN  IF startsWith("min") THEN step \o " * * * *"
        ELSE IF startsWith("hour") THEN "0 " \o step \o " * * *"
        ELSE IF startsWith("day") THEN "0 9 " \o step \o " * *"
        ELSE IF startsWith("week") THEN "0 9 * * 1"
        ELSE "0 9 1 */1 *"

\* the cron expression of the interval rule, "every <value> <unit>"
Interval(value, unit) ==
    LET startsWith(prefix) ==
            Len(unit) >= Len(prefix) /\ SubSeq(unit, 1, Len(prefix)) = prefix
        step == "*/" \o ToString(value)
    IN  IF startsWith("min") THEN step \o " * * * *"
        ELSE IF startsWith("hour") THEN "0 " \o step \o " * * *"
        ELSE IF startsWith("day") THEN "0 9 " \o step \o " * *"
        ELSE IF startsWith("week") THEN "0 9 * * 1"
        ELSE "0 9 1 " \o step \o " *"

RECURSIVE parseSchedule(_, _)
\* now is the Date that new Date() returns during the call
parseSchedule(input, now) ==
    LET normalized == normalize(input)
        intervalMatch == Exec(Patterns.intervalMatch, normalized)
        dayAtTimeMatch == Exec(Patterns.dayAtTimeMatch, normalized)
        timeEveryDayMatch == Exec(Patterns.timeEveryDayMatch, normalized)
        dayOnlyMatch == Exec(Patterns.dayOnlyMatch, normalized)
        specialDayMatch == Exec(Patterns.specialDayMatch, normalized)
        dailyMatch == Exec(Patterns.dailyMatch, normalized)
        timeDailyMatch == Exec(Patterns.timeDailyMatch, normalized)
        inMatch == Exec(Patterns.inMatch, normalized)
        todayMatch == Exec(Patterns.todayMatch, normalized)
        nextDayMatch == Exec(Patterns.nextDayMatch, normalized)
        monthDayMatch == Exec(Patterns.monthDayMatch, normalized)
        ampmMatch == Exec(Patterns.ampmMatch, normalized)
        simpleTimeMatch == Exec(Patterns.simpleTimeMatch, normalized)
        countMatch == Exec(Patterns.countMatch, toLowerCase(input))
        maxRuns == IF countMatch.matched THEN parseInt(countMatch.caps[1])
                   ELSE 0
        cronMatch == Exec(Patterns.cronMatch, input)
        \* a template literal of five fields
        Fields(a, b, c, d, e) ==
            a \o " " \o b \o " " \o c \o " " \o d \o " " \o e
        \* `${time.minute} ${time.hour} c d e`, or the Error of parseTime
        At(time, c, d, e) ==
            IF time.ok
            THEN Parsed(Fields(ToString(time.minute), ToString(time.hour),
                               c, d, e))
            ELSE ParseError
        OneTime(result) ==
            IF result.ok THEN [result EXCEPT !.isOneTime = TRUE] ELSE result
        startsWith(s, prefix) ==
            Len(s) >= Len(prefix) /\ SubSeq(s, 1, Len(prefix)) = prefix
        nineAm == [ok |-> TRUE, hour |-> 9, minute |-> 0]
        finalHour(hour, isPm) ==
            IF isPm THEN (IF hour = 12 THEN 12 ELSE hour + 12)
            ELSE (IF hour = 12 THEN 0 ELSE hour)
        \* new Date(now.getTime() + n * 60000)
        addMinutes(n) ==
            LET total == now.hours * 60 + now.minutes + n
            IN  addDays([now EXCEPT !.hours = (total % 1440) \div 60,
                                    !.minutes = total % 60],
                        total \div 1440)
    IN  IF intervalMatch.matched THEN
          Parsed(Interval(IF intervalMatch.caps[1] # ""
                          THEN parseInt(intervalMatch.caps[1])
                          ELSE 1,
                          intervalMatch.caps[2]))
        ELSE IF dayAtTimeMatch.matched THEN
          At(parseTime(dayAtTimeMatch.caps[2]), "*", "*",
             ToString(parseDay(dayAtTimeMatch.caps[1])))
        ELSE IF timeEveryDayMatch.matched THEN
          At(parseTime(timeEveryDayMatch.caps[1]), "*", "*",
             ToString(parseDay(timeEveryDayMatch.caps[2])))
        ELSE IF dayOnlyMatch.matched THEN
          Parsed(Fields("0", "9", "*", "*",
                        ToString(parseDay(dayOnlyMatch.caps[1]))))
        ELSE IF specialDayMatch.matched THEN
          IF specialDayMatch.caps[1] = "weekday"
          THEN Parsed(Fields("0", "9", "*", "*", "1-5"))
          ELSE Parsed(Fields("0", "9", "*", "*", "0,6"))
        ELSE IF dailyMatch.matched THEN
          At(IF dailyMatch.caps[1] # "" THEN parseTime(dailyMatch.caps[1])
             ELSE nineAm, "*", "*", "*")
        ELSE IF timeDailyMatch.matched THEN
          At(parseTime(timeDailyMatch.caps[1]), "*", "*", "*")
        ELSE IF inMatch.matched THEN
          LET value == parseInt(inMatch.caps[1])
              target == addMinutes(IF startsWith(inMatch.caps[2], "min")
                                   THEN value ELSE value * 60)
          IN  OneTime(Parsed(Fields(ToString(target.minutes),
                                    ToString(target.hours),
                                    ToString(target.date),
                                    ToString(target.month), "*")))
        ELSE IF todayMatch.matched THEN
          OneTime(At(parseTime(todayMatch.caps[1]), ToString(now.date),
                     ToString(now.month), "*"))
        ELSE IF nextDayMatch.matched THEN
          LET day == parseDay(nextDayMatch.caps[1])
              time == IF nextDayMatch.caps[2] # ""
                      THEN parseTime(nextDayMatch.caps[2]) ELSE nineAm
              daysUntil == (day - now.day + 7) % 7
              target == addDays(now, IF daysUntil = 0 THEN 7 ELSE daysUntil)
          IN  OneTime(At(time, ToString(target.date),
                         ToString(target.month), "*"))
        ELSE IF monthDayMatch.matched THEN
          LET day == parseInt(monthDayMatch.caps[1])
              month == parseMonth(monthDayMatch.caps[2])
              time == IF monthDayMatch.caps[3] # ""
                      THEN parseTime(monthDayMatch.caps[3]) ELSE nineAm
          IN  IF month = -1 THEN ParseError
              ELSE At(time, ToString(day), ToString(month), "*")
        ELSE IF ampmMatch.matched THEN
          Parsed(Fields("0",
                        ToString(finalHour(parseInt(ampmMatch.caps[1]),
                                           ampmMatch.caps[2] = "pm")),
                        "*", "*", "*"))
        ELSE IF simpleTimeMatch.matched THEN
          Parsed(Fields("0",
                        ToString(finalHour(parseInt(simpleTimeMatch.caps[1]),
                                           simpleTimeMatch.caps[2] = "pm")),
                        "*", "*", "*"))
        ELSE IF maxRuns # 0 THEN
          Counted(parseSchedule(baseInput(input), now), maxRuns)
        ELSE IF cronMatch.matched THEN
          Parsed(Fields(cronMatch.caps[1], cronMatch.caps[2],
                        cronMatch.caps[3], cronMatch.caps[4],
                        cronMatch.caps[5]))
        ELSE ParseError

getScheduleExamples ==
    <<"9am every Monday", "every Tuesday at 3pm", "every 15 minutes",
      "every hour", "daily at 9am", "weekdays at 8:30am", "next Thursday",
      "in 30 minutes", "at 2pm today", "1st of January at midnight",
      "every day 4x", "*/5 * * * *">>

\* the "Supported Schedule Expressions" table; cron = "" on the rows whose
\* cron is documented as Calculated
Supported ==
    <<[expression |-> "0 9 * * *", cron |-> "0 9 * * *"],
      [expression |-> "9am every Monday", cron |-> "0 9 * * 1"],
      [expression |-> "every Tuesday at 3pm", cron |-> "0 15 * * 2"],
      [expression |-> "every 15 minutes", cron |-> "*/15 * * * *"],
      [expression |-> "every hour", cron |-> "0 */1 * * *"],
      [expression |-> "daily at 9am", cron |-> "0 9 * * *"],
      [expression |-> "weekdays at 8:30am", cron |-> "30 8 * * 1-5"],
      [expression |-> "next Thursday", cron |-> ""],
      [expression |-> "in 30 minutes", cron |-> ""],
      [expression |-> "at 2pm today", cron |-> ""],
      [expression |-> "1st of January at midnight", cron |-> "0 0 1 1 *"],
      [expression |-> "every tuesday 4x", cron |-> "0 9 * * 2"]>>

\* -------------------------------------------- the parser as a specification
\* One expression is typed, parsed, and parsed again with a count suffix
\* appended, all at one reading of the clock; the examples are listed on
\* request or when the expression is rejected, and one of them is typed next.

\* words the typed expressions are made of
Vocabulary ==
    {"every", "monday", "15", "minutes", "at", "9am", "daily", "13pm"}

\* expressions of the forms the vocabulary does not reach, and expressions
\* in another case or with other white space
Typed ==
    {"every weekday", "every weekend", "next monday at 9am", "next fri",
     "at 9:30 today", "on the 1st of january at 9am", "on 15 of may",
     "on 2nd of foo", "0 9 * * 1-5", " 0 9 * * 1", "Daily  AT 5:30 PM",
     "every monday at 9:5", "every 2 weeks", "each 3 months", "12pm",
     "every 3 days", "every 2 hours",
     "at 12am", "every day", "in 15 min", "in 2 hours", "every day 4x",
     "every hour 1 time", "2 times", "not a real schedule", ""}

Inputs ==
    {trim(Concat([k \in 1..Len(words) |-> words[k] \o " "])) :
       words \in UNION {[1..n -> Vocabulary] : n \in 1..MaxWords}}
      \cup Typed \cup {Supported[k].expression : k \in 1..Len(Supported)}

\* Thursday, 31 December 23:50 and Saturday, 28 February 09:00 of a leap year
Clocks ==
    {[minutes |-> 50, hours |-> 23, date |-> 31, month |-> 12, day |-> 4,
      leap |-> FALSE],
     [minutes |-> 0, hours |-> 9, date |-> 28, month |-> 2, day |-> 6,
      leap |-> TRUE]}

SchedInit ==
    /\ JobInit
    /\ SideIdle
    /\ reg = Null
    /\ table = Null
    /\ \E input \in Inputs, now \in Clocks :
         sched = [input |-> input, now |-> now, stage |-> "typed",
                  result |-> ParseError, count |-> 0, suffix |-> "",
                  counted |-> ParseError, offered |-> <<>>]

\* parseSchedule(options.schedule); a rejected expression lists the examples
SchedParse ==
    /\ sched # Null
    /\ sched.stage = "typed"
    /\ LET result == parseSchedule(sched.input, sched.now)
       IN  sched' = [sched EXCEPT
                       !.stage = "parsed",
                       !.result = result,
                       !.offered = IF result.ok THEN @
                                   ELSE getScheduleExamples]
    /\ UNCHANGED <<jobVars, content, original, written, run, reg, table>>

\* the same expression followed by a count suffix
SchedParseCounted(n, suffix) ==
    /\ sched # Null
    /\ sched.stage = "parsed"
    /\ sched' = [sched EXCEPT
                   !.stage = "counted",
                   !.count = n,
                   !.suffix = suffix,
                   !.counted = parseSchedule(sched.input \o suffix,
                                             sched.now)]
    /\ UNCHANGED <<jobVars, content, original, written, run, reg, table>>

\* --examples
SchedExamples ==
    /\ sched # Null
    /\ sched.stage = "typed"
    /\ sched.offered = <<>>
    /\ sched' = [sched EXCEPT !.offered = getScheduleExamples]
    /\ UNCHANGED <<jobVars, content, original, written, run, reg, table>>

\* the user types one of the examples listed
SchedRetype(k) ==
    /\ sched # Null
    /\ sched.stage \in {"typed", "parsed"}
    /\ k \in 1..Len(sched.offered)
    /\ sched' = [sched EXCEPT
                   !.input = sched.offered[k],
                   !.stage = "typed",
                   !.result = ParseError,
                   !.count = 0,
                   !.suffix = "",
                   !.counted = ParseError]
    /\ UNCHANGED <<jobVars, content, original, written, run, reg, table>>

SchedNext ==
    \/ SchedParse
    \/ \E n \in 1..MaxCount :
         \E suffix \in {" " \o ToString(n) \o "x",
                        " " \o ToString(n) \o " time",
                        " " \o ToString(n) \o " times"} :
           SchedParseCounted(n, suffix)
    \/ SchedExamples
    \/ \E k \in 1..Len(getScheduleExamples) : SchedRetype(k)

SchedSpec == SchedInit /\ [][SchedNext]_vars

\* ============================================================ properties
JobExists(id) == store[id] # Null

\* execute invocations on job id
Executes(id) == {p \in Procs : proc[p].cmd = "execute" /\ proc[p].id = id}

\* outcomes of an invocation that dispatched the delivery subprocess and
\* got a result back
Delivered == {"ok", "fail", "spawnerr"}

\* completed executions of job id, and those whose delivery failed
Completed(id) ==
    {p \in Executes(id) : proc[p].pc = "done" /\ proc[p].outcome \in Delivered}

Failures(id) == {p \in Completed(id) : proc[p].outcome # "ok"}

\* every execute invocation on id so far has run the delivery and is over
AllCompleted(id) == Executes(id) = Completed(id)

\* nothing but create and execute has been invoked
OnlyCreateAndExecute ==
    \A p \in Procs : proc[p].cmd \in {"none", "create", "execute"}

\* p is between its lock acquisition and its lock release
Holding(p) == proc[p].cmd = "execute" /\ proc[p].pc \in {"run", "unlock"}

\* executor.execute of p has returned to the execute action, or thrown
Returned(p) ==
    /\ proc[p].cmd = "execute"
    /\ proc[p].pc \in {"us_read", "us_write", "x_rm_read", "x_rm_write", "x_delete", "done"}

\* C1: at most one execute invocation per job id is between lock
\* acquisition and lock release at any time.
C1_AtMostOneHolder ==
    \A p, q \in Procs :
        (p # q /\ Holding(p) /\ Holding(q)) => proc[p].id # proc[q].id

\* C2: once N executions of a job have completed, the stored runCount is N
\* and the stored failCount is the number of them whose delivery failed.
C2_CountsEqualExecutions ==
    \A id \in JobIds :
        (JobExists(id) /\ OnlyCreateAndExecute /\ AllCompleted(id)) =>
            /\ store[id].runCount = Cardinality(Completed(id))
            /\ store[id].failCount = Cardinality(Failures(id))

\* C3: for a job that still exists, runCount and failCount never decrease
\* from one store write to the next.
C3_CountsNeverDecrease ==
    [][\A id \in JobIds :
          (JobExists(id) /\ store'[id] # Null) =>
              /\ store'[id].runCount >= store[id].runCount
              /\ store'[id].failCount >= store[id].failCount]_vars

\* C4: a job created with maxRuns = k is in the Job Store and the trigger
\* table before its k-th execution completes and in neither after k
\* completed executions, whatever their results.
C4_MaxRunsDeletes ==
    \A c \in Procs :
        (/\ proc[c].cmd = "create" /\ proc[c].pc = "done" /\ proc[c].maxRuns > 0
         /\ OnlyCreateAndExecute /\ AllCompleted(proc[c].id)) =>
            IF Cardinality(Completed(proc[c].id)) < proc[c].maxRuns
            THEN JobExists(proc[c].id) /\ proc[c].id \in CrontabIds
            ELSE ~JobExists(proc[c].id) /\ proc[c].id \notin CrontabIds

\* C5: a job created with autoDelete and no maxRuns stays in the Job Store
\* and the trigger table after failed runs and is in neither once its
\* first successful run has completed.
C5_AutoDeleteOnSuccess ==
    \A c \in Procs :
        (/\ proc[c].cmd = "create" /\ proc[c].pc = "done"
         /\ proc[c].autoDelete /\ proc[c].maxRuns = 0
         /\ OnlyCreateAndExecute /\ AllCompleted(proc[c].id)) =>
            IF Completed(proc[c].id) = Failures(proc[c].id)
            THEN JobExists(proc[c].id) /\ proc[c].id \in CrontabIds
            ELSE ~JobExists(proc[c].id) /\ proc[c].id \notin CrontabIds

C7_ContendedNoMutation ==
    [][\A p \in Procs :
          (proc[p].outcome = "contended" /\ proc'[p] # proc[p]) =>
              (store' = store /\ crontab' = crontab)]_vars

\* C8: whenever an execute invocation that acquired the lock has returned,
\* with a result or by an exception, the marker it wrote is gone.
C8_LockReleasedOnReturn ==
    \A p \in Procs :
        (Returned(p) /\ proc[p].acquired) => locks[proc[p].id] # p

C8_Witness ==
    \E p \in Procs :
        /\ Returned(p) /\ proc[p].acquired
        /\ proc[p].outcome = "throw" /\ proc[p].exit = 1

\* C9: when the marker isLocked reads records a pid that is not a live
\* process, isLocked returns false (the caller is not turned away as
\* already running) and once it has returned the marker of that pid is gone.
C9_StaleMarkerPurged ==
    \A p \in Procs :
        proc[p].stale =>
            /\ proc[p].outcome # "contended"
            /\ proc[p].pc = "lock_write" => locks[proc[p].id] # proc[p].lockPid

C9_Witness ==
    \E p \in Procs :
        /\ proc[p].stale /\ proc[p].pc = "lock_write"
        /\ locks[proc[p].id] = 0

\* C10: the lock attempt that finds the marker of a crashed holder returns
\* with the lock acquired.
C10_StaleLockAcquired ==
    \A p \in Procs :
        (proc[p].stale /\ proc[p].pc \notin {"purge", "lock_write"}) =>
            proc[p].acquired

C10_Witness ==
    \E p, q \in Procs :
        /\ proc[q].pc = "crashed" /\ proc[q].acquired
        /\ proc[p].id = proc[q].id
        /\ proc[p].stale /\ proc[p].acquired
        /\ proc[p].pc = "run" /\ locks[proc[p].id] = p

\* the non-managed region of a crontab text
NonManaged(lines) == OutsideLines(lines, FALSE)

\* C11: the non-managed region of the trigger table is the same, byte for
\* byte, before and after any sequence of add, remove, install and
\* uninstall operations.
C11_NonManagedPreserved ==
    NonManaged(content) = NonManaged(original)

\* C12: the trigger line written for a job depends only on its id and its
\* cron schedule: jobs that differ in name or message but not in id and
\* schedule get the same line, and the line carries no free text.
C12_TriggerLineFromIdAndSchedule ==
    /\ \A v, w \in written :
           (v.job.id = w.job.id /\ v.job.cron = w.job.cron) => v.line = w.line
    /\ \A w \in written :
           w.line = TriggerLine(CronEntry(w.job.id, w.job.cron, ""))
    /\ \A i \in 1..Len(content) :
           content[i].kind = "entry" => content[i].text = ""

C12_Witness ==
    \E v, w \in written :
        /\ v.job.id = w.job.id /\ v.job.cron = w.job.cron
        /\ v.job.name # w.job.name /\ v.job.message # w.job.message
        /\ \E i \in 1..Len(content) :
               content[i].kind = "entry" /\ content[i].jobId = v.job.id

\* C13: no termination signal is sent to the running child before
\* timeoutMs plus the grace interval has elapsed since spawn; the primary
\* deadline only sets executionExceeded; the first signal is SIGTERM, and
\* SIGKILL follows it no earlier than the kill delay later.
C13_NoSignalBeforeGrace ==
    \A i \in 1..Len(run.signals) :
        /\ run.signals[i].at >= run.startTime + run.timeoutMs + HandoffGraceMs
        /\ run.signals[i].sig = "SIGKILL" =>
               \E j \in 1..(i - 1) :
                   /\ run.signals[j].sig = "SIGTERM"
                   /\ run.signals[i].at >= run.signals[j].at + KillDelayMs

C13_Witness ==
    /\ run # Null
    /\ run.executionExceeded
    /\ Len(run.signals) = 2
    /\ run.signals[2].sig = "SIGKILL"

\* C14: the result is a success exactly when the child exited with status
\* zero, also when it did so after the primary timeout; a non-zero exit, a
\* signal death or a spawn error is a failure.
C14_SuccessIffExitZero ==
    (run # Null /\ run.result # Null) =>
        (run.result.success <=> (run.child = "exited" /\ run.code = 0))

C14_Witness ==
    /\ run # Null
    /\ run.result # Null
    /\ run.executionExceeded
    /\ run.result.success

C16_TimeoutExitsNine ==
    (run # Null /\ run.result # Null /\ run.killedBy # "none") =>
        ProcessExitCode(run.result) = 9

\* C17: the steps of an execute invocation in dry-run mode change neither
\* the lock files nor the job records nor the trigger table.
C17_DryRunNoEffects ==
    [][\A p \in Procs :
          (proc[p].cmd = "execute" /\ proc[p].dryRun /\ proc'[p] # proc[p]) =>
              (locks' = locks /\ store' = store /\ crontab' = crontab)]_vars

\* C18: the steps of an execute invocation that found the job disabled
\* and was not forced change neither the lock files nor the job records.
C18_DisabledNoEffects ==
    [][\A p \in Procs :
          (proc[p].outcome = "disabled" /\ proc'[p] # proc[p]) =>
              (locks' = locks /\ store' = store)]_vars

\* C19: when payload resolution fails the result carries exit code 5, the
\* subprocess was not spawned, the lock is released once execute has
\* returned, and the process exits with 5.
C19_PayloadErrorReleasesLock ==
    \A p \in Procs :
        proc[p].outcome = "payloaderr" =>
            /\ ~proc[p].spawned
            /\ proc[p].pc \notin {"done", "crashed"} => proc[p].exitCode = 5
            /\ Returned(p) => locks[proc[p].id] # p
            /\ proc[p].pc = "done" => proc[p].exit = 5

C19_Witness ==
    \E p \in Procs :
        /\ proc[p].outcome = "payloaderr" /\ proc[p].acquired
        /\ proc[p].pc = "done" /\ proc[p].exit = 5
        /\ locks[proc[p].id] = 0

\* C20: one call spawns the delivery subprocess at most once, whatever
\* maxRetries is and however the delivery ends.
C20_SpawnedAtMostOnce ==
    run # Null => run.spawns <= 1

C20_Witness ==
    /\ run # Null
    /\ run.maxRetries > 0
    /\ run.spawns = 1
    /\ run.result # Null
    /\ ~run.result.success

\* the ids that have a record in the Job Store
StoreIds == {id \in JobIds : JobExists(id)}

\* C21: when cron --install ends and no command has run concurrently, the
\* ids with a trigger entry are the ids in the Job Store, each entry with
\* the schedule.cronExpression of its job.
C21_InstallRebuilds ==
    [][\A p \in Procs :
          (/\ proc[p].cmd = "install" \/ proc'[p].cmd = "install"
           /\ proc[p].pc # "done" /\ proc'[p].pc = "done"
           /\ ~overlapped') =>
              /\ CrontabIds' = StoreIds'
              /\ \A i \in 1..Len(crontab') :
                     crontab'[i].cronExpression = store'[crontab'[i].jobId].cron]_vars

\* the last Registry call was made on an id that had no record
OnMissing == reg.call.op # "none" /\ reg.call.before[reg.call.id] = Null

\* C22: update and updateState never change a job's id: the job returned
\* and stored keeps the id it was called with, whatever the partial input
\* carries, and no other file appears or changes.
C22_IdNeverChanges ==
    reg # Null =>
        /\ \A i \in RegIds : reg.files[i] # Null => reg.files[i].id = i
        /\ (reg.call.op \in {"update", "updateState"} /\ reg.call.ret # Null) =>
               /\ reg.call.ret.id = reg.call.id
               /\ reg.files = [reg.call.before EXCEPT ![reg.call.id] = reg.call.ret]

C22_Witness ==
    /\ reg # Null
    /\ reg.call.op = "update"
    /\ reg.call.ret # Null
    /\ "id" \in DOMAIN reg.call.input
    /\ reg.call.input.id # reg.call.id
    /\ reg.files[reg.call.input.id] = Null

\* C23: on an id with no record, get, update and updateState return null
\* and delete returns false, and no file is created or changed.
C23_NotFoundNoEffect ==
    (reg # Null /\ OnMissing /\ reg.call.op # "create") =>
        /\ reg.call.ret = IF reg.call.op = "delete" THEN [deleted |-> FALSE] ELSE Null
        /\ reg.files = reg.call.before

C23_Witness ==
    /\ reg # Null
    /\ OnMissing
    /\ reg.call.op = "updateState"
    /\ \E i \in RegIds : reg.files[i] # Null

\* C24: get(create(input).id) is the created job: a fresh id, enabled as
\* the input says (true if it does not say), zeroed state, the configured
\* default timeoutMs, and the schedule, autoDelete and maxRuns of the input.
C24_CreateRoundTrip ==
    (reg # Null /\ reg.call.op = "create") =>
        LET job == reg.files[reg.call.id]
            input == reg.call.input
        IN  /\ job = reg.call.ret
            /\ reg.call.before[job.id] = Null
            /\ job.enabled = (input.enabled # "false")
            /\ job.state = ZeroState
            /\ job.timeoutMs = ConfigTimeoutMs
            /\ {"schedule", "autoDelete", "maxRuns"} \subseteq DOMAIN job
            /\ job.schedule = input.schedule
            /\ job.autoDelete = input.autoDelete
            /\ job.maxRuns = input.maxRuns

\* C25: execute on an id that has no record exits with code 2; it writes
\* no lock marker, spawns nothing, and changes neither the job records nor
\* the trigger table.
C25_NotFoundNoEffect ==
    [][\A p \in Procs :
          (proc'[p].outcome = "notfound" /\ proc'[p] # proc[p]) =>
              /\ proc'[p].pc = "done" /\ proc'[p].exit = 2
              /\ ~proc'[p].acquired /\ ~proc'[p].spawned
              /\ locks' = locks /\ store' = store /\ crontab' = crontab]_vars

C25_Witness ==
    \E p, q \in Procs :
        /\ proc[q].cmd = "delete" /\ proc[q].pc = "done" /\ proc[q].exit = 0
        /\ proc[p].cmd = "execute" /\ proc[p].id = proc[q].id
        /\ proc[p].outcome = "notfound" /\ proc[p].exit = 2
        /\ ~JobExists(proc[p].id)

\* a process that was killed while deleting a job, in a history in which
\* no command ever overlapped another
CrashedDeleting(p) ==
    /\ proc[p].pc = "crashed"
    /\ proc[p].crashedAt \in DeletionSteps
    /\ ~overlapped

\* C29: the trigger entry is removed before the job record is deleted: a
\* process killed between the two steps leaves the record and no trigger
\* entry, and a process killed anywhere in the deletion never leaves a
\* trigger entry without a record.
C29_CrashLeavesNoDanglingTrigger ==
    \A p \in Procs :
        CrashedDeleting(p) =>
            /\ proc[p].id \in CrontabIds => JobExists(proc[p].id)
            /\ (/\ proc[p].crashedAt \in {"d_delete", "x_delete"}
                /\ \A q \in Procs : q > p => proc[q].pc = "idle") =>
                   (JobExists(proc[p].id) /\ proc[p].id \notin CrontabIds)

C29_Witness ==
    \E p \in Procs :
        /\ CrashedDeleting(p)
        /\ proc[p].cmd = "delete" /\ proc[p].crashedAt = "d_delete"
        /\ JobExists(proc[p].id) /\ proc[p].id \notin CrontabIds

\* C30: when the marker lock reads records a live process, lock returns
\* false (the already-running result, exit code 4) and the invocation
\* leaves the marker as it is, then and afterwards.
C30_LiveMarkerUnchanged ==
    [][\A p \in Procs :
          /\ (/\ proc[p].pc = "isLocked_probe"
              /\ isProcessRunning(proc[p].lockPid)
              /\ proc'[p] # proc[p]) =>
                 (/\ proc'[p].outcome = "contended" /\ proc'[p].exitCode = 4
                  /\ ~proc'[p].acquired
                  /\ locks' = locks)
          /\ (proc[p].outcome = "contended" /\ proc'[p] # proc[p]) =>
                 locks' = locks]_vars

C30_Witness ==
    \E p, q \in Procs :
        /\ proc[p].outcome = "contended" /\ proc[p].pc = "us_read"
        /\ Holding(q) /\ proc[q].id = proc[p].id
        /\ locks[proc[p].id] = q

\* C26: an accepted expression followed by a count suffix "Nx", "N time" or
\* "N times" (N >= 1) is accepted with the cron expression of the
\* expression alone and maxRuns = N
C26_CountSuffixAnnotates ==
    (sched # Null /\ sched.stage = "counted" /\ sched.result.ok)
      => /\ sched.counted.ok
         /\ sched.counted.cronExpression = sched.result.cronExpression
         /\ sched.counted.maxRuns = sched.count

C26_Witness ==
    /\ sched # Null
    /\ sched.stage = "counted"
    /\ sched.input = "9am every monday"
    /\ sched.suffix = " 2 times"
    /\ sched.result.ok
    /\ sched.counted.cronExpression = "0 9 * * 1"
    /\ sched.counted.maxRuns = 2

\* no rule of the grammar matches the expression
MatchesNoRule(input) ==
    /\ \A rule \in DOMAIN Patterns \ {"time", "parseTime", "baseInput",
                                      "countMatch", "cronMatch"} :
         ~Exec(Patterns[rule], normalize(input)).matched
    /\ ~Exec(Patterns.countMatch, toLowerCase(input)).matched
    /\ ~Exec(Patterns.cronMatch, input).matched

\* the expression has a time that parseTime rejects or, where a month is
\* read, a month that parseMonth rejects (the day names are fixed by the
\* rules, parseDay rejects none of them).  A word is a time by its form:
\* the text of a time of day that is not digits alone.
UnparseableToken(input) ==
    LET s == normalize(input)
        Words == {SubSeq(s, ij[1], ij[2]) : ij \in
                    {ij \in (1..Len(s)) \X (1..Len(s)) :
                       /\ ij[1] <= ij[2]
                       /\ \A k \in ij[1]..ij[2] : SubSeq(s, k, k) # " "
                       /\ ij[1] = 1 \/ SubSeq(s, ij[1] - 1, ij[1] - 1) = " "
                       /\ ij[2] = Len(s)
                            \/ SubSeq(s, ij[2] + 1, ij[2] + 1) = " "}}
        TimeWord(w) ==
            /\ \E k \in 1..Len(w) : SubSeq(w, k, k) \notin Digit
            /\ LET ms == Match(Patterns.time, w,
                               <<[pos |-> 1,
                                  caps |-> <<"", "", "", "", "">>]>>)
               IN  \E k \in 1..Len(ms) : ms[k].pos = Len(w) + 1
        monthDayMatch == Exec(Patterns.monthDayMatch, s)
    IN  \/ \E w \in Words : TimeWord(w) /\ ~parseTime(w).ok
        \/ monthDayMatch.matched /\ parseMonth(monthDayMatch.caps[2]) = -1

\* C27: an expression that matches no rule of the grammar, or that has an
\* unparseable time, day or month token, is rejected with an error: no
\* cron expression is returned for it
C27_UnparseableRejected ==
    (sched # Null /\ sched.stage # "typed"
       /\ (MatchesNoRule(sched.input) \/ UnparseableToken(sched.input)))
      => ~sched.result.ok

\* C28: every expression of the "Supported Schedule Expressions" table and
\* of getScheduleExamples is accepted by parseSchedule with the cron
\* documented for it
C28_ExamplesAccepted ==
    (sched # Null /\ sched.stage # "typed")
      => /\ (\E k \in 1..Len(getScheduleExamples) :
               sched.input = getScheduleExamples[k]) => sched.result.ok
         /\ \A k \in 1..Len(Supported) :
              sched.input = Supported[k].expression
                => /\ sched.result.ok
                   /\ Supported[k].cron # ""
                        => sched.result.cronExpression = Supported[k].cron

\* C31: after addToCrontab(X, e) the managed region has exactly one entry
\* for job X, and the cron expression of that entry is e
C31_AddLeavesOneEntry ==
    (table # Null /\ table.call.op = "add" /\ table.call.timezone = "")
      => LET OneEntry(entries) ==
                 /\ Cardinality({k \in 1..Len(entries) :
                                   entries[k].jobId = table.call.jobId}) = 1
                 /\ \A k \in 1..Len(entries) :
                        entries[k].jobId = table.call.jobId
                          => entries[k].cronExpression
                               = table.call.cronExpression
         IN  OneEntry(parseSection(table.lines))

\* C32: a call of addToCrontab or removeFromCrontab for job X leaves the
\* entries of the other jobs as they were: the same ids with the same cron
\* expressions in the same order
C32_OthersUnchanged ==
    [][(table # Null /\ table' # table)
         => LET Others(lines) ==
                    LET entries == FilterOut(parseSection(lines),
                                             table'.call.jobId)
                    IN  [k \in 1..Len(entries) |->
                           <<entries[k].jobId, entries[k].cronExpression>>]
            IN  Others(table'.lines) = Others(table.lines)]_vars

\* C33 (as claimed): "every N <unit>" compiles to a cron expression with
\* the step */N in the minute, hour or day field for minutes, hours and
\* days, and to one and the same cron expression for every N for weeks
\* and for months
C33_IntervalHonoursN ==
    (sched # Null /\ sched.stage # "typed") =>
        LET Honoured(m) ==
                (m.matched /\ m.caps[1] # "") =>
                    LET step == "*/" \o ToString(parseInt(m.caps[1]))
                        unit == SubSeq(m.caps[2], 1, 3)
                    IN  /\ sched.result.ok
                        /\ unit = "min" =>
                              sched.result.cronExpression = step \o " * * * *"
                        /\ unit = "hou" =>
                              sched.result.cronExpression
                                = "0 " \o step \o " * * *"
                        /\ unit = "day" =>
                              sched.result.cronExpression
                                = "0 9 " \o step \o " * *"
                        /\ unit \in {"wee", "mon"} =>
                              \A n \in 1..MaxStep :
                                  Interval(n, m.caps[2])
                                    = sched.result.cronExpression
        IN  Honoured(Exec(Patterns.intervalMatch, normalize(sched.input)))

\* C33 (amended): "every N <unit>" compiles to a cron expression with the
\* step */N in the minute, hour, day or month field for minutes, hours,
\* days and months, and to one and the same cron expression for every N
\* for weeks only
C33_IntervalIgnoresNForWeeks ==
    (sched # Null /\ sched.stage # "typed") =>
        LET Honoured(m) ==
                (m.matched /\ m.caps[1] # "") =>
                    LET step == "*/" \o ToString(parseInt(m.caps[1]))
                        unit == SubSeq(m.caps[2], 1, 3)
                    IN  /\ sched.result.ok
                        /\ unit = "min" =>
                              sched.result.cronExpression = step \o " * * * *"
                        /\ unit = "hou" =>
                              sched.result.cronExpression
                                = "0 " \o step \o " * * *"
                        /\ unit = "day" =>
                              sched.result.cronExpression
                                = "0 9 " \o step \o " * *"
                        /\ unit = "mon" =>
                              sched.result.cronExpression
                                = "0 9 1 " \o step \o " *"
                        /\ unit = "wee" =>
                              \A n \in 1..MaxStep :
                                  Interval(n, m.caps[2])
                                    = sched.result.cronExpression
        IN  Honoured(Exec(Patterns.intervalMatch, normalize(sched.input)))

C33_Witness ==
    /\ sched # Null
    /\ sched.stage = "parsed"
    /\ sched.input = "each 3 months"
    /\ sched.result.ok
    /\ sched.result.cronExpression = "0 9 1 */3 *"

C35_MarkerRemovedByOwner ==
    [][\A id \in JobIds, p \in Procs :
         (/\ locks[id] \in Alive
          /\ locks'[id] = 0
          /\ proc'[p] # proc[p])
            => p = locks[id]]_vars

\* C36: an execute that has acquired the lock of the job eventually
\* unlocks it and leaves Executor.execute, with a result or with the
\* exception thrown in the try block, and the action then runs to its exit
C36_AcquiredLockReleased ==
    \A p \in Procs :
        (proc[p].pc = "run" /\ proc[p].acquired)
          ~> (/\ proc[p].pc = "done"
              /\ proc[p].outcome # "none"
              /\ locks[proc[p].id] # p)

\* an execute that took the lock has got the result of a child that did
\* not exit with status 0, and has unlocked
C36_Witness ==
    \E p \in Procs :
        /\ proc[p].pc = "us_read"
        /\ proc[p].acquired
        /\ proc[p].spawned
        /\ proc[p].outcome = "fail"
        /\ locks[proc[p].id] = 0

\* C37: in every job record of the store, whatever executes (those that
\* found the job disabled or the lock taken among them) and edits have
\* run and however they interleaved, state.failCount <= state.runCount
C37_FailCountAtMostRunCount ==
    \A id \in JobIds :
        store[id] # Null => store[id].failCount <= store[id].runCount

\* a record with a failure counted, written while another command ran
C37_Witness ==
    \E id \in JobIds :
        /\ store[id] # Null
        /\ store[id].failCount > 0
        /\ overlapped

\* C38: a job record that has been deleted stays deleted: no step puts a
\* record back under an id that was handed out and has no record
C38_DeletedStaysDeleted ==
    [][\A id \in JobIds :
         (id \in Issued /\ store[id] = Null) => store'[id] = Null]_vars

\* C39: when a create, an edit --schedule or a cron --install that ran
\* with no other command beside it, then or before, exits 0, every entry
\* of the trigger table whose job has a record carries the cron
\* expression stored in the record
C39_EntryMatchesRecord ==
    [][\A p \in Procs :
         (/\ proc[p].pc \notin {"idle", "done"}
          /\ proc'[p].pc = "done"
          /\ proc'[p].exit = 0
          /\ \/ proc[p].cmd \in {"create", "install"}
             \/ proc[p].cmd = "edit" /\ proc[p].cron # 0
          /\ ~overlapped
          /\ Alive = {p})
            => \A k \in 1..Len(crontab') :
                   store'[crontab'[k].jobId] # Null
                     => crontab'[k].cronExpression
                          = store'[crontab'[k].jobId].cron]_vars

\* C40: when an expression that is not a cron expression itself is
\* compiled, the minute, hour, day-of-month and month fields of the cron
\* expression are, where they are numbers, within 0-59, 0-23, 1-31 and
\* 1-12, and where they are steps */N, N is at least 1 and at most the
\* largest value of the field
C40_FieldsInRange ==
    (/\ sched # Null
     /\ sched.stage # "typed"
     /\ sched.result.ok
     /\ ~Exec(Patterns.cronMatch, sched.input).matched)
        => LET cron == sched.result.cronExpression
               spaces == {i \in 1..Len(cron) : SubSeq(cron, i, i) = " "}
               Bound(k) ==
                   IF k = 0 THEN 0
                   ELSE IF k > Cardinality(spaces) THEN Len(cron) + 1
                   ELSE CHOOSE i \in spaces :
                            Cardinality({j \in spaces : j < i}) = k - 1
               Field(k) == SubSeq(cron, Bound(k - 1) + 1, Bound(k) - 1)
               isNumber(f) ==
                   /\ f # ""
                   /\ \A i \in 1..Len(f) : SubSeq(f, i, i) \in Digit
               isStep(f) ==
                   /\ Len(f) > 2
                   /\ SubSeq(f, 1, 2) = "*/"
                   /\ isNumber(SubSeq(f, 3, Len(f)))
               lowest == <<0, 0, 1, 1>>
               highest == <<59, 23, 31, 12>>
           IN  \A k \in 1..4 :
                   /\ isNumber(Field(k))
                        => /\ parseInt(Field(k)) >= lowest[k]
                           /\ parseInt(Field(k)) <= highest[k]
                   /\ isStep(Field(k))
                        => /\ parseInt(SubSeq(Field(k), 3, Len(Field(k)))) >= 1
                           /\ parseInt(SubSeq(Field(k), 3, Len(Field(k))))
                                <= highest[k]
====
